---- MODULE Spec2Model ----
(***************************************************************************)
(* PseudoJSON: the literal renderer (stringify), its visited set (_exists), *)
(* the module generator (generateExportModule) and the loader (parse) that *)
(* executes the rendered text.                                             *)
(*                                                                         *)
(* Text is a sequence of one-character strings.  A JavaScript value is a   *)
(* tagged record; a container (record, array, Map, Set) is a reference     *)
(* into the heap, so that identity, sharing and cycles are representable.  *)
(***************************************************************************)
EXTENDS Integers, Sequences, FiniteSets, TLC

VARIABLES
    heap,      \* the program's container objects: id -> [kind, keys, items]
    indent,    \* options.indent the instance was constructed with
    _indent,   \* PseudoJSON._indent of the instance
    _exists,   \* PseudoJSON._exists of the instance: ids of visited containers
    ops,       \* number of allocations and mutations the program has performed
    arg,       \* argument of the latest stringify call
    ret,       \* outcome of the latest stringify call
    repeat,    \* the latest call repeated the argument of the call before it
    root,      \* the value the round-trip program is building
    moduleCall, \* options and outcome of the latest generateExportModule call
    parseArg,  \* argument of the latest parse call
    parsed,    \* outcome of the latest parse call
    class,     \* the class the instance is of
    frames,    \* the _stringify calls in progress, outermost first
    entered,   \* containers the stringify call in progress has entered
    reentry    \* the stringify call made while another was in progress

vars == <<heap, indent, _indent, _exists, ops, arg, ret, repeat, root,
          moduleCall, parseArg, parsed, class, frames, entered, reentry>>

\* the instance's class and its call in progress
progress == <<class, frames, entered, reentry>>

----------------------------------------------------------------------------
(* Bounds *)

MaxOps == 4
MaxStack == 6
MaxDepth == 2
MaxSiblings == 1
MaxCalls == 2

----------------------------------------------------------------------------
(* Values *)

Null == [t |-> "null"]
Undefined == [t |-> "undefined"]
Str(s) == [t |-> "string", s |-> s]
Num(n) == [t |-> "number", k |-> "fin", n |-> n]
NaN == [t |-> "number", k |-> "NaN", n |-> 0]
Infinity == [t |-> "number", k |-> "Infinity", n |-> 0]
NegInfinity == [t |-> "number", k |-> "-Infinity", n |-> 0]
NegZero == [t |-> "number", k |-> "-0", n |-> 0]
Bool(b) == [t |-> "boolean", b |-> b]
BigInt(n) == [t |-> "bigint", n |-> n]
\* a symbol: reg = it is in the global registry (then desc is its key and
\* uid is 0); otherwise a unique symbol, with or without a description
Sym(reg, hasDesc, desc, uid) ==
    [t |-> "symbol", reg |-> reg, hasDesc |-> hasDesc, desc |-> desc, uid |-> uid]
DateV(valid, ms) == [t |-> "date", valid |-> valid, ms |-> ms]
RegExpV(source, flags) == [t |-> "regexp", source |-> source, flags |-> flags]
\* an Error: name and message are strings, stack is a string or undefined
ErrorV(name, message, stack) ==
    [t |-> "error", name |-> name, message |-> message, stack |-> stack]
Ref(o) == [t |-> "ref", id |-> o]
\* a container by value: what parse builds, and what a heap value unfolds to
Tree(kind, keys, items) == [t |-> kind, keys |-> keys, items |-> items]

Kinds == {"record", "array", "map", "set"}
\* objects that render as leaves: a heap object of such a kind holds its
\* Date, RegExp or Error value as items[1]
LeafLike == {"date", "regexp", "error"}

\* the first index of x in the sequence s, 0 when x is no element of it
IndexOf(s, x) == IF \E j \in 1..Len(s) : s[j] = x
                 THEN CHOOSE j \in 1..Len(s) : s[j] = x /\ \A i \in 1..(j - 1) : s[i] # x
                 ELSE 0
IsRef(v) == v.t = "ref"

\* the one element of a singleton: a call's result is computed once and
\* then named, as `x` is in { ... : x \in {call} }
The(S) == CHOOSE x \in S : TRUE

----------------------------------------------------------------------------
(* Text helpers *)

RECURSIVE Join(_, _)
Join(texts, sep) ==
    IF texts = <<>> THEN <<>>
    ELSE IF Len(texts) = 1 THEN texts[1]
    ELSE texts[1] \o sep \o Join(Tail(texts), sep)

Digit(d) == <<"0", "1", "2", "3", "4", "5", "6", "7", "8", "9">>[d + 1]

RECURSIVE NatToString(_)
NatToString(n) ==
    IF n < 10 THEN <<Digit(n)>> ELSE NatToString(n \div 10) \o <<Digit(n % 10)>>

\* String(value) and value.toString() of an integer
IntToString(n) == IF n < 0 THEN <<"-">> \o NatToString(-n) ELSE NatToString(n)

\* JSON.stringify of one character of a string
EscapeChar(c) ==
    CASE c = "\"" -> <<"\\", "\"">>
      [] c = "\\" -> <<"\\", "\\">>
      [] c = "\n" -> <<"\\", "n">>
      [] c = "\t" -> <<"\\", "t">>
      [] OTHER -> <<c>>

RECURSIVE EscapeAll(_)
EscapeAll(s) == IF s = <<>> THEN <<>> ELSE EscapeChar(Head(s)) \o EscapeAll(Tail(s))

\* $jsonStrfy: JSON.stringify of a string
jsonStrfy(s) == <<"\"">> \o EscapeAll(s) \o <<"\"">>

----------------------------------------------------------------------------
(* The constructor *)

RECURSIVE Spaces(_)
\* ' '.repeat(n)
Spaces(n) == IF n <= 0 THEN <<>> ELSE <<" ">> \o Spaces(n - 1)

\* a constructor that writes a number as its decimal digits
constructorDigits(option) ==
    LET chosen == IF option.t \in {"undefined", "null"} THEN Str(<<>>) ELSE option IN
    IF chosen.t = "number" THEN IntToString(chosen.n) ELSE chosen.s

\* constructor(options): the indent unit this._indent for options.indent,
\* which is absent (undefined), null, a non-negative integer or a string
constructor(option) ==
    LET chosen == IF option.t \in {"undefined", "null"} THEN Str(<<>>) ELSE option IN
    IF chosen.t = "number" THEN Spaces(chosen.n) ELSE chosen.s

----------------------------------------------------------------------------
(* The renderer *)

T_TypeError == "TypeError: cyclic object value"
T_RangeError == "RangeError: Maximum call stack size exceeded"

\* Symbol.keyFor(value): the registry key, or undefined
keyFor(value) == IF value.reg THEN Str(value.desc) ELSE Undefined

\* JavaScript truthiness of a string-or-undefined
Truthy(v) == v.t = "string" /\ v.s # <<>>

\* a _symbol that tests the description for truthiness
_symbolFalsyDescription(value) ==
    IF Truthy(keyFor(value))
    THEN <<"S", "y", "m", "b", "o", "l", ".", "f", "o", "r", "(">>
             \o jsonStrfy(value.desc) \o <<")">>
    ELSE IF ~value.hasDesc \/ value.desc = <<>>
    THEN <<"S", "y", "m", "b", "o", "l", "(", ")">>
    ELSE <<"S", "y", "m", "b", "o", "l", "(">> \o jsonStrfy(value.desc) \o <<")">>

_symbol(value) ==
    IF Truthy(keyFor(value))
    THEN <<"S", "y", "m", "b", "o", "l", ".", "f", "o", "r", "(">>
             \o jsonStrfy(value.desc) \o <<")">>
    ELSE IF ~value.hasDesc
    THEN <<"S", "y", "m", "b", "o", "l", "(", ")">>
    ELSE <<"S", "y", "m", "b", "o", "l", "(">> \o jsonStrfy(value.desc) \o <<")">>

\* a _cyclic that checks the visited set but never records the container
_cyclicNeverRecords(exists, o) ==
    IF o \in exists
    THEN [err |-> T_TypeError, exists |-> exists]
    ELSE [err |-> "", exists |-> exists]

\* _cyclic: throws when the container is already visited, else records it
_cyclic(exists, o) ==
    IF o \in exists
    THEN [err |-> T_TypeError, exists |-> exists]
    ELSE [err |-> "", exists |-> exists \cup {o}]

\* the pieces of the Error template around its three strings
T_ErrorName == <<"(", "(", "e", ")", "=", ">", "{", "e", ".", "n", "a", "m", "e", "=">>
T_ErrorStack == <<";", "e", ".", "s", "t", "a", "c", "k", "=">>
T_ErrorReturn == <<"r", "e", "t", "u", "r", "n", " ", "e", ";", "}", ")", "(", "n", "e", "w", " ", "E", "r", "r", "o", "r", "(">>
T_ErrorEnd == <<")", ")">>

\* the rendering of a value that is no container
Leaf(value) ==
    CASE value.t = "null" -> <<"n", "u", "l", "l">>
      [] value.t = "undefined" -> <<"u", "n", "d", "e", "f", "i", "n", "e", "d">>
      [] value.t = "string" -> jsonStrfy(value.s)
      [] value.t = "number" ->
            (CASE value.k = "NaN" -> <<"N", "a", "N">>
               [] value.k = "Infinity" -> <<"I", "n", "f", "i", "n", "i", "t", "y">>
               [] value.k = "-Infinity" ->
                     <<"-", "I", "n", "f", "i", "n", "i", "t", "y">>
               [] value.k = "-0" -> <<"0">>
               [] OTHER -> IntToString(value.n))
      [] value.t = "boolean" ->
            (IF value.b THEN <<"t", "r", "u", "e">> ELSE <<"f", "a", "l", "s", "e">>)
      [] value.t = "symbol" -> _symbol(value)
      [] value.t = "bigint" -> IntToString(value.n)
      [] value.t = "date" ->
            <<"n", "e", "w", " ", "D", "a", "t", "e", "(">>
                \o (IF value.valid THEN IntToString(value.ms) ELSE <<"N", "a", "N">>)
                \o <<")">>
      [] value.t = "regexp" -> <<"/">> \o value.source \o <<"/">> \o value.flags
      [] value.t = "error" ->
            T_ErrorName \o jsonStrfy(value.name)
                \o T_ErrorStack
                \o jsonStrfy(IF value.stack.t = "undefined" THEN <<>> ELSE value.stack.s)
                \o T_ErrorReturn \o jsonStrfy(value.message) \o T_ErrorEnd

\* a KeyStr that quotes a string key
KeyStrQuoted(key) ==
    IF key.t = "string" THEN jsonStrfy(key.s) ELSE <<"[">> \o _symbol(key) \o <<"]">>

\* the key text of a record's own key
KeyStr(key) ==
    IF key.t = "string" THEN key.s ELSE <<"[">> \o _symbol(key) \o <<"]">>

RECURSIVE _stringify(_, _, _, _), RenderAll(_, _, _, _, _)

\* renders vals[i..] in order, threading the visited set; stops at the
\* first throw.  [err, texts, exists]
RenderAll(vals, i, currentIndent, exists, depth) ==
    IF i > Len(vals) THEN [err |-> "", texts |-> <<>>, exists |-> exists]
    ELSE LET r == _stringify(vals[i], currentIndent, exists, depth) IN
         IF r.err # "" THEN [err |-> r.err, texts |-> <<>>, exists |-> r.exists]
         ELSE LET rest == RenderAll(vals, i + 1, currentIndent, r.exists, depth) IN
              [err |-> rest.err, texts |-> <<r.text>> \o rest.texts,
               exists |-> rest.exists]

\* interleaves a Map's keys and values: k1, v1, k2, v2, ...
Entries(obj) ==
    [j \in 1..(2 * Len(obj.items)) |->
        IF j % 2 = 1 THEN obj.keys[(j + 1) \div 2] ELSE obj.items[j \div 2]]

\* a _map that renders the entries one indent unit deeper
_mapIndented(obj, currentIndent, exists, depth) ==
    LET r == RenderAll(Entries(obj), 1, currentIndent \o _indent, exists, depth)
        pairs == [j \in 1..Len(obj.items) |->
                     <<"[">> \o r.texts[2 * j - 1] \o <<",", " ">>
                         \o r.texts[2 * j] \o <<"]">>]
    IN  IF r.err # "" THEN [err |-> r.err, text |-> <<>>, exists |-> r.exists]
        ELSE [err |-> "",
              text |-> <<"n", "e", "w", " ", "M", "a", "p", "(", "[">>
                           \o Join(pairs, <<",", " ">>) \o <<"]", ")">>,
              exists |-> r.exists]

_map(obj, currentIndent, exists, depth) ==
    LET r == RenderAll(Entries(obj), 1, currentIndent, exists, depth)
        pairs == [j \in 1..Len(obj.items) |->
                     <<"[">> \o r.texts[2 * j - 1] \o <<",", " ">>
                         \o r.texts[2 * j] \o <<"]">>]
    IN  IF r.err # "" THEN [err |-> r.err, text |-> <<>>, exists |-> r.exists]
        ELSE [err |-> "",
              text |-> <<"n", "e", "w", " ", "M", "a", "p", "(", "[">>
                           \o Join(pairs, <<",", " ">>) \o <<"]", ")">>,
              exists |-> r.exists]

_set(obj, currentIndent, exists, depth) ==
    LET r == RenderAll(obj.items, 1, currentIndent, exists, depth) IN
    IF r.err # "" THEN [err |-> r.err, text |-> <<>>, exists |-> r.exists]
    ELSE [err |-> "",
          text |-> <<"n", "e", "w", " ", "S", "e", "t", "(", "[">>
                       \o Join(r.texts, <<",", " ">>) \o <<"]", ")">>,
          exists |-> r.exists]

\* a Layout that closes the bracket at the members' indentation
LayoutClosesDeeper(open, close, members, currentIndent, nextIndent) ==
    IF _indent = <<>>
    THEN open \o Join(members, <<",", " ">>) \o close
    ELSE open \o <<"\n">> \o nextIndent
             \o Join(members, <<",", "\n">> \o nextIndent)
             \o <<"\n">> \o nextIndent \o close

\* the inline or multi-line layout shared by arrays and records
Layout(open, close, members, currentIndent, nextIndent) ==
    IF _indent = <<>>
    THEN open \o Join(members, <<",", " ">>) \o close
    ELSE open \o <<"\n">> \o nextIndent
             \o Join(members, <<",", "\n">> \o nextIndent)
             \o <<"\n">> \o currentIndent \o close

\* an _array that lays out an empty array like any other
_arrayNoEmptyCase(obj, currentIndent, exists, depth) ==
    LET nextIndent == currentIndent \o _indent
        r == RenderAll(obj.items, 1, nextIndent, exists, depth)
    IN  IF r.err # "" THEN [err |-> r.err, text |-> <<>>, exists |-> r.exists]
        ELSE [err |-> "",
              text |-> Layout(<<"[">>, <<"]">>, r.texts, currentIndent, nextIndent),
              exists |-> r.exists]

_array(obj, currentIndent, exists, depth) ==
    LET nextIndent == currentIndent \o _indent
        r == RenderAll(obj.items, 1, nextIndent, exists, depth)
    IN  IF obj.items = <<>> THEN [err |-> "", text |-> <<"[", "]">>, exists |-> exists]
        ELSE IF r.err # "" THEN [err |-> r.err, text |-> <<>>, exists |-> r.exists]
        ELSE [err |-> "",
              text |-> Layout(<<"[">>, <<"]">>, r.texts, currentIndent, nextIndent),
              exists |-> r.exists]

_record(obj, currentIndent, exists, depth) ==
    LET nextIndent == currentIndent \o _indent
        r == RenderAll(obj.items, 1, nextIndent, exists, depth)
        pairs == [j \in 1..Len(obj.items) |->
                     KeyStr(obj.keys[j]) \o <<":", " ">> \o r.texts[j]]
    IN  IF obj.items = <<>> THEN [err |-> "", text |-> <<"{", "}">>, exists |-> exists]
        ELSE IF r.err # "" THEN [err |-> r.err, text |-> <<>>, exists |-> r.exists]
        ELSE [err |-> "",
              text |-> Layout(<<"{">>, <<"}">>, pairs, currentIndent, nextIndent),
              exists |-> r.exists]

\* a _stringify that tracks the recursion path only: the container leaves
\* the visited set again once its members are rendered
_stringifyPathOnly(value, currentIndent, exists, depth) ==
    IF depth >= MaxStack
    THEN [err |-> T_RangeError, text |-> <<>>, exists |-> exists]
    ELSE IF ~IsRef(value)
    THEN [err |-> "", text |-> Leaf(value), exists |-> exists]
    ELSE IF heap[value.id].kind \in LeafLike
    THEN [err |-> "", text |-> Leaf(heap[value.id].items[1]), exists |-> exists]
    ELSE LET c == _cyclic(exists, value.id)
             obj == heap[value.id]
             r == CASE obj.kind = "map" -> _map(obj, currentIndent, c.exists, depth + 1)
                    [] obj.kind = "set" -> _set(obj, currentIndent, c.exists, depth + 1)
                    [] obj.kind = "array" ->
                          _array(obj, currentIndent, c.exists, depth + 1)
                    [] OTHER -> _record(obj, currentIndent, c.exists, depth + 1)
         IN  IF c.err # "" THEN [err |-> c.err, text |-> <<>>, exists |-> c.exists]
             ELSE IF r.err # "" THEN r
             ELSE [r EXCEPT !.exists = exists]

\* _stringify(value, currentIndent) with this._exists = exists on entry, at
\* call depth `depth`.  [err, text, exists]: err is "" when it returns text.
_stringify(value, currentIndent, exists, depth) ==
    IF depth >= MaxStack
    THEN [err |-> T_RangeError, text |-> <<>>, exists |-> exists]
    ELSE IF ~IsRef(value)
    THEN [err |-> "", text |-> Leaf(value), exists |-> exists]
    ELSE IF heap[value.id].kind \in LeafLike
    THEN [err |-> "", text |-> Leaf(heap[value.id].items[1]), exists |-> exists]
    ELSE LET c == _cyclic(exists, value.id)
             obj == heap[value.id]
         IN  IF c.err # "" THEN [err |-> c.err, text |-> <<>>, exists |-> c.exists]
             ELSE CASE obj.kind = "map" -> _map(obj, currentIndent, c.exists, depth + 1)
                    [] obj.kind = "set" -> _set(obj, currentIndent, c.exists, depth + 1)
                    [] obj.kind = "array" ->
                          _array(obj, currentIndent, c.exists, depth + 1)
                    [] OTHER -> _record(obj, currentIndent, c.exists, depth + 1)

\* stringify(value) on an instance whose visited set is `exists`:
\* [threw, err, text, exists], exists being the visited set it leaves behind
stringify(exists, value) ==
    LET result == _stringify(value, <<>>, exists, 0) IN
    IF result.err # ""
    THEN [threw |-> TRUE, err |-> result.err, text |-> <<>>, exists |-> result.exists]
    ELSE [threw |-> FALSE, err |-> "", text |-> result.text, exists |-> {}]

----------------------------------------------------------------------------
(* The module generator *)

T_CodeAboveExport == "TypeError: codeAboveExport must be a string"
T_UnsupportedModule == "Error: Unsupported module type"

W_exportDefault ==
    <<"e", "x", "p", "o", "r", "t", " ", "d", "e", "f", "a", "u", "l", "t", " ">>
W_moduleExports ==
    <<"m", "o", "d", "u", "l", "e", ".", "e", "x", "p", "o", "r", "t", "s", " ", "=", " ">>

Esm == Str(<<"e", "s", "m">>)
Cjs == Str(<<"c", "j", "s">>)

\* the options argument: an absent property is undefined
Options(type, codeAboveExport) == [type |-> type, codeAboveExport |-> codeAboveExport]

\* JavaScript truthiness of a primitive
ToBoolean(v) ==
    CASE v.t \in {"undefined", "null"} -> FALSE
      [] v.t = "boolean" -> v.b
      [] v.t = "number" -> v.k \in {"fin", "Infinity", "-Infinity"} /\ ~(v.k = "fin" /\ v.n = 0)
      [] v.t = "string" -> v.s # <<>>
      [] v.t = "bigint" -> v.n # 0
      [] OTHER -> TRUE

\* a generateExportModule whose CommonJS form has no trailing newline
generateExportModuleNoNewline(exists, jsonCode, options) ==
    LET moduleType == IF options.type.t \in {"undefined", "null"} THEN Esm ELSE options.type
        codeAboveExport == IF ToBoolean(options.codeAboveExport)
                           THEN options.codeAboveExport ELSE Str(<<>>)
        dataStr == stringify(exists, jsonCode)
    IN  IF codeAboveExport.t # "string"
        THEN [threw |-> TRUE, err |-> T_CodeAboveExport, text |-> <<>>, exists |-> exists]
        ELSE IF dataStr.threw
        THEN [threw |-> TRUE, err |-> dataStr.err, text |-> <<>>, exists |-> dataStr.exists]
        ELSE IF moduleType = Esm
        THEN [threw |-> FALSE, err |-> "",
              text |-> W_exportDefault \o dataStr.text \o <<"\n">>, exists |-> dataStr.exists]
        ELSE IF moduleType = Cjs
        THEN [threw |-> FALSE, err |-> "",
              text |-> W_moduleExports \o dataStr.text, exists |-> dataStr.exists]
        ELSE [threw |-> TRUE, err |-> T_UnsupportedModule, text |-> <<>>,
              exists |-> dataStr.exists]

\* a generateExportModule that falls back to the ES form on any other type
generateExportModuleFallback(exists, jsonCode, options) ==
    LET moduleType == IF options.type.t \in {"undefined", "null"} THEN Esm ELSE options.type
        codeAboveExport == IF ToBoolean(options.codeAboveExport)
                           THEN options.codeAboveExport ELSE Str(<<>>)
        dataStr == stringify(exists, jsonCode)
    IN  IF codeAboveExport.t # "string"
        THEN [threw |-> TRUE, err |-> T_CodeAboveExport, text |-> <<>>, exists |-> exists]
        ELSE IF dataStr.threw
        THEN [threw |-> TRUE, err |-> dataStr.err, text |-> <<>>, exists |-> dataStr.exists]
        ELSE IF moduleType = Esm
        THEN [threw |-> FALSE, err |-> "",
              text |-> W_exportDefault \o dataStr.text \o <<"\n">>, exists |-> dataStr.exists]
        ELSE IF moduleType = Cjs
        THEN [threw |-> FALSE, err |-> "",
              text |-> W_moduleExports \o dataStr.text \o <<"\n">>, exists |-> dataStr.exists]
        ELSE [threw |-> FALSE, err |-> "",
              text |-> W_exportDefault \o dataStr.text \o <<"\n">>, exists |-> dataStr.exists]

\* generateExportModule(jsonCode, options) on an instance whose visited set
\* is `exists`: [threw, err, text, exists]
generateExportModule(exists, jsonCode, options) ==
    LET moduleType == IF options.type.t \in {"undefined", "null"} THEN Esm ELSE options.type
        codeAboveExport == IF ToBoolean(options.codeAboveExport)
                           THEN options.codeAboveExport ELSE Str(<<>>)
        dataStr == stringify(exists, jsonCode)
    IN  IF codeAboveExport.t # "string"
        THEN [threw |-> TRUE, err |-> T_CodeAboveExport, text |-> <<>>, exists |-> exists]
        ELSE IF dataStr.threw
        THEN [threw |-> TRUE, err |-> dataStr.err, text |-> <<>>, exists |-> dataStr.exists]
        ELSE IF moduleType = Esm
        THEN [threw |-> FALSE, err |-> "",
              text |-> W_exportDefault \o dataStr.text \o <<"\n">>, exists |-> dataStr.exists]
        ELSE IF moduleType = Cjs
        THEN [threw |-> FALSE, err |-> "",
              text |-> W_moduleExports \o dataStr.text \o <<"\n">>, exists |-> dataStr.exists]
        ELSE [threw |-> TRUE, err |-> T_UnsupportedModule, text |-> <<>>,
              exists |-> dataStr.exists]

----------------------------------------------------------------------------
(* The loader: parse strips the export wrapper and executes the text.      *)
(* Eval is the JavaScript evaluation of the expression grammar the         *)
(* renderer emits; any other construct ends in the error T_Unsupported.    *)

T_SyntaxError == "SyntaxError"
T_EvalTypeError == "TypeError"
T_Unsupported == "Unsupported"

NoValue == [t |-> "none"]

Ok(v, p) == [err |-> "", val |-> v, pos |-> p]
Fail(e) == [err |-> e, val |-> NoValue, pos |-> 0]

\* the character at position i, "" past the end
At(t, i) == IF i >= 1 /\ i <= Len(t) THEN t[i] ELSE ""

WhiteSpace == {" ", "\n", "\t"}
Digits == {"0", "1", "2", "3", "4", "5", "6", "7", "8", "9"}
IdStart == {"a", "b", "c", "d", "e", "f", "g", "h", "i", "j", "k", "l", "m",
            "n", "o", "p", "q", "r", "s", "t", "u", "v", "w", "x", "y", "z",
            "A", "B", "C", "D", "E", "F", "G", "H", "I", "J", "K", "L", "M",
            "N", "O", "P", "Q", "R", "S", "T", "U", "V", "W", "X", "Y", "Z",
            "_", "$"}
IdPart == IdStart \cup Digits

\* words that are no expression: a declaration or an export inside the
\* parentheses of `return (...)` is a syntax error
ReservedWords == { <<"c", "o", "n", "s", "t">>, <<"e", "x", "p", "o", "r", "t">> }

DigitValue(c) == CHOOSE d \in 0..9 : Digit(d) = c

\* the first position at or after i that holds no white space
RECURSIVE SkipWs(_, _)
SkipWs(t, i) == IF At(t, i) \in WhiteSpace THEN SkipWs(t, i + 1) ELSE i

\* the first position after i at which white space ends, i.e. \s+ from i;
\* 0 when there is no white space at i
SkipWs1(t, i) == IF At(t, i) \in WhiteSpace THEN SkipWs(t, i) ELSE 0

\* the word w stands at position i
Match(t, i, w) == \A j \in 1..Len(w) : At(t, i + j - 1) = w[j]

\* the end (exclusive) of the run of characters of set S starting at i
RECURSIVE RunEnd(_, _, _)
RunEnd(t, i, S) == IF At(t, i) \in S THEN RunEnd(t, i + 1, S) ELSE i

Slice(t, i, j) == SubSeq(t, i, j - 1)

RECURSIVE DigitsValue(_)
DigitsValue(ds) ==
    IF ds = <<>> THEN 0
    ELSE 10 * DigitsValue(SubSeq(ds, 1, Len(ds) - 1)) + DigitValue(ds[Len(ds)])

\* a double-quoted string literal whose opening quote is at i - 1
RECURSIVE EvalString(_, _, _)
EvalString(t, i, acc) ==
    LET c == At(t, i) IN
    CASE c = "" -> Fail(T_SyntaxError)
      [] c = "\n" -> Fail(T_SyntaxError)
      [] c = "\"" -> Ok(Str(acc), i + 1)
      [] c = "\\" ->
            (LET e == At(t, i + 1) IN
             CASE e = "n" -> EvalString(t, i + 2, Append(acc, "\n"))
               [] e = "t" -> EvalString(t, i + 2, Append(acc, "\t"))
               [] e = "\"" -> EvalString(t, i + 2, Append(acc, "\""))
               [] e = "\\" -> EvalString(t, i + 2, Append(acc, "\\"))
               [] e = "" -> Fail(T_SyntaxError)
               [] OTHER -> Fail(T_Unsupported))
      [] OTHER -> EvalString(t, i + 1, Append(acc, c))

\* the end (exclusive) of the body of a regular expression literal that
\* starts at i: the position of its closing slash, 0 when there is none
RECURSIVE RegExpBodyEnd(_, _)
RegExpBodyEnd(t, i) ==
    LET c == At(t, i) IN
    CASE c = "" -> 0
      [] c = "\n" -> 0
      [] c = "/" -> i
      [] c = "\\" -> IF At(t, i + 1) \in {"", "\n"} THEN 0 ELSE RegExpBodyEnd(t, i + 2)
      [] c = "[" -> 0
      [] OTHER -> RegExpBodyEnd(t, i + 1)

Primitive(v) ==
    v.t \in {"null", "undefined", "string", "number", "boolean", "bigint", "symbol"}

\* the key a Map or a Set stores for v: -0 is stored as +0
Stored(v) == IF v = NegZero THEN Num(0) ELSE v

\* the index of the key of keys that is the same value as v, 0 if none:
\* objects are fresh, so only primitives are ever the same
SameKey(keys, v) == IF Primitive(v) THEN IndexOf(keys, v) ELSE 0

\* new Map(iterable) over the values of an array of entries
RECURSIVE MapFrom(_, _, _, _)
MapFrom(entries, j, keys, items) ==
    IF j > Len(entries) THEN [err |-> "", val |-> Tree("map", keys, items)]
    ELSE LET e == entries[j] IN
         IF e.t # "array" THEN [err |-> T_EvalTypeError, val |-> NoValue]
         ELSE IF Len(e.items) < 2 THEN [err |-> T_Unsupported, val |-> NoValue]
         ELSE LET k == Stored(e.items[1])
                  at == SameKey(keys, k)
              IN  IF at > 0
                  THEN MapFrom(entries, j + 1, keys, [items EXCEPT ![at] = e.items[2]])
                  ELSE MapFrom(entries, j + 1, Append(keys, k), Append(items, e.items[2]))

\* new Set(iterable) over the values of an array
RECURSIVE SetFrom(_, _, _)
SetFrom(members, j, items) ==
    IF j > Len(members) THEN Tree("set", <<>>, items)
    ELSE LET m == Stored(members[j]) IN
         IF SameKey(items, m) > 0 THEN SetFrom(members, j + 1, items)
         ELSE SetFrom(members, j + 1, Append(items, m))

\* -v
Negate(v) ==
    CASE v.t = "number" /\ v.k = "fin" -> IF v.n = 0 THEN NegZero ELSE Num(0 - v.n)
      [] v.t = "number" /\ v.k = "-0" -> Num(0)
      [] v.t = "number" /\ v.k = "NaN" -> NaN
      [] v.t = "number" /\ v.k = "Infinity" -> NegInfinity
      [] v.t = "number" /\ v.k = "-Infinity" -> Infinity
      [] v.t = "bigint" -> BigInt(0 - v.n)
      [] OTHER -> NoValue

RECURSIVE EvalExpr(_, _), EvalPrimary(_, _), EvalList(_, _, _, _), EvalProps(_, _, _, _)

\* a comma-separated list of expressions from i up to the closing
\* character: [err, val (the sequence of values), pos (after the closer)]
EvalList(t, i, closer, acc) ==
    LET a == SkipWs(t, i) IN
    IF At(t, a) = closer
    THEN IF acc = <<>> THEN Ok(acc, a + 1) ELSE Fail(T_Unsupported)
    ELSE LET r == EvalExpr(t, a) IN
         IF r.err # "" THEN r
         ELSE LET b == SkipWs(t, r.pos) IN
              CASE At(t, b) = closer -> Ok(Append(acc, r.val), b + 1)
                [] At(t, b) = "," -> EvalList(t, b + 1, closer, Append(acc, r.val))
                [] OTHER -> Fail(T_SyntaxError)

\* the property name at i of an object literal: [err, val (the key), pos]
EvalKey(t, i) ==
    LET c == At(t, i) IN
    CASE c = "[" ->
            (LET r == EvalExpr(t, i + 1)
                 b == SkipWs(t, r.pos)
             IN  IF r.err # "" THEN r
                 ELSE IF At(t, b) # "]" THEN Fail(T_SyntaxError)
                 ELSE IF r.val.t \in {"string", "symbol"} THEN Ok(r.val, b + 1)
                 ELSE Fail(T_Unsupported))
      [] c = "\"" -> EvalString(t, i + 1, <<>>)
      [] c \in IdStart ->
            (LET e == RunEnd(t, i, IdPart) IN Ok(Str(Slice(t, i, e)), e))
      [] c \in Digits ->
            (LET e == RunEnd(t, i, Digits) IN
             IF (c = "0" /\ e > i + 1) \/ At(t, e) \in IdPart \cup {"."}
             THEN Fail(T_Unsupported)
             ELSE Ok(Str(Slice(t, i, e)), e))
      [] OTHER -> Fail(T_SyntaxError)

\* the properties of an object literal from i up to the closing brace
EvalProps(t, i, keys, items) ==
    LET a == SkipWs(t, i) IN
    IF At(t, a) = "}" THEN Ok(Tree("record", keys, items), a + 1)
    ELSE LET k == EvalKey(t, a)
             b == SkipWs(t, k.pos)
         IN  IF k.err # "" THEN k
             ELSE IF At(t, b) \in {",", "}", "("} THEN Fail(T_Unsupported)
             ELSE IF At(t, b) # ":" THEN Fail(T_SyntaxError)
             ELSE LET r == EvalExpr(t, b + 1)
                      c == SkipWs(t, r.pos)
                      at == IndexOf(keys, k.val)
                      keys2 == IF at > 0 THEN keys ELSE Append(keys, k.val)
                      items2 == IF at > 0 THEN [items EXCEPT ![at] = r.val]
                                ELSE Append(items, r.val)
                  IN  IF r.err # "" THEN r
                      ELSE CASE At(t, c) = "}" -> Ok(Tree("record", keys2, items2), c + 1)
                             [] At(t, c) = "," -> EvalProps(t, c + 1, keys2, items2)
                             [] OTHER -> Fail(T_SyntaxError)

\* new C(...) with the word `new` ending before i
EvalNew(t, i) ==
    LET a == SkipWs(t, i)
        e == RunEnd(t, a, IdPart)
        ctor == Slice(t, a, e)
        b == SkipWs(t, e)
        args == EvalList(t, b + 1, ")", <<>>)
    IN  IF ~(At(t, a) \in IdStart) THEN Fail(T_SyntaxError)
        ELSE IF At(t, b) # "(" THEN Fail(T_Unsupported)
        ELSE IF args.err # "" THEN args
        ELSE IF Len(args.val) # 1 THEN Fail(T_Unsupported)
        ELSE LET x == args.val[1] IN
             CASE ctor = <<"M", "a", "p">> ->
                     (IF x.t # "array" THEN Fail(T_Unsupported)
                      ELSE LET m == MapFrom(x.items, 1, <<>>, <<>>) IN
                           IF m.err # "" THEN Fail(m.err) ELSE Ok(m.val, args.pos))
               [] ctor = <<"S", "e", "t">> ->
                     (IF x.t # "array" THEN Fail(T_Unsupported)
                      ELSE Ok(SetFrom(x.items, 1, <<>>), args.pos))
               [] ctor = <<"D", "a", "t", "e">> ->
                     (IF x.t # "number" THEN Fail(T_Unsupported)
                      ELSE IF x.k \in {"fin", "-0"} THEN Ok(DateV(TRUE, x.n), args.pos)
                      ELSE Ok(DateV(FALSE, 0), args.pos))
               [] OTHER -> Fail(T_Unsupported)

\* Symbol(...) or Symbol.for(...), the word Symbol standing at i .. e - 1
EvalSymbol(t, i, e) ==
    LET a == SkipWs(t, e) IN
    IF At(t, a) = "("
    THEN LET args == EvalList(t, a + 1, ")", <<>>) IN
         IF args.err # "" THEN args
         ELSE IF args.val = <<>> THEN Ok(Sym(FALSE, FALSE, <<>>, 0 - i), args.pos)
         ELSE IF Len(args.val) = 1 /\ args.val[1].t = "string"
         THEN Ok(Sym(FALSE, TRUE, args.val[1].s, 0 - i), args.pos)
         ELSE Fail(T_Unsupported)
    ELSE IF At(t, a) = "."
    THEN LET b == SkipWs(t, a + 1)
             f == RunEnd(t, b, IdPart)
             c == SkipWs(t, f)
             args == EvalList(t, c + 1, ")", <<>>)
         IN  IF Slice(t, b, f) # <<"f", "o", "r">> \/ At(t, c) # "("
             THEN Fail(T_Unsupported)
             ELSE IF args.err # "" THEN args
             ELSE IF Len(args.val) = 1 /\ args.val[1].t = "string"
             THEN Ok(Sym(TRUE, TRUE, args.val[1].s, 0), args.pos)
             ELSE Fail(T_Unsupported)
    ELSE Fail(T_Unsupported)

\* ((e)=>{e.name=N;e.stack=S;return e;})(new Error(M)) with N at i: the
\* arrow function's body is a statement list, so a token that follows the
\* string S on the same line with no semicolon between is a syntax error
EvalError(t, i) ==
    IF At(t, i) # "\"" THEN Fail(T_Unsupported)
    ELSE The({
        IF name.err # "" THEN name
        ELSE IF ~Match(t, name.pos, T_ErrorStack \o <<"\"">>) THEN Fail(T_Unsupported)
        ELSE The({
            IF stack.err # "" THEN stack
            ELSE IF At(t, stack.pos) \in IdPart \cup {"\""} THEN Fail(T_SyntaxError)
            ELSE IF ~Match(t, stack.pos, <<";">> \o T_ErrorReturn \o <<"\"">>)
            THEN Fail(T_Unsupported)
            ELSE The({
                IF message.err # "" THEN message
                ELSE IF ~Match(t, message.pos, T_ErrorEnd) THEN Fail(T_Unsupported)
                ELSE Ok(ErrorV(name.val.s, message.val.s, Str(stack.val.s)),
                        message.pos + Len(T_ErrorEnd)) :
                message \in {EvalString(t, stack.pos + Len(T_ErrorReturn) + 2, <<>>)} }) :
            stack \in {EvalString(t, name.pos + Len(T_ErrorStack) + 1, <<>>)} }) :
        name \in {EvalString(t, i + 1, <<>>)} })

\* a primary or unary expression at i, which holds no white space
EvalPrimary(t, i) ==
    LET c == At(t, i) IN
    CASE c = "\"" -> EvalString(t, i + 1, <<>>)
      [] c \in Digits ->
            (LET e == RunEnd(t, i, Digits) IN
             IF c = "0" /\ e > i + 1 THEN Fail(T_SyntaxError)
             ELSE IF At(t, e) = "n"
             THEN IF At(t, e + 1) \in IdPart THEN Fail(T_SyntaxError)
                  ELSE Ok(BigInt(DigitsValue(Slice(t, i, e))), e + 1)
             ELSE IF At(t, e) \in IdPart THEN Fail(T_SyntaxError)
             ELSE IF At(t, e) = "." THEN Fail(T_Unsupported)
             ELSE Ok(Num(DigitsValue(Slice(t, i, e))), e))
      [] c = "-" ->
            (LET r == EvalPrimary(t, SkipWs(t, i + 1)) IN
             IF At(t, i + 1) = "-" THEN Fail(T_SyntaxError)
             ELSE IF r.err # "" THEN r
             ELSE IF Negate(r.val) = NoValue THEN Fail(T_Unsupported)
             ELSE Ok(Negate(r.val), r.pos))
      [] c = "[" ->
            (LET r == EvalList(t, i + 1, "]", <<>>) IN
             IF r.err # "" THEN r ELSE Ok(Tree("array", <<>>, r.val), r.pos))
      [] c = "{" -> EvalProps(t, i + 1, <<>>, <<>>)
      [] c = "(" ->
            (LET r == EvalExpr(t, i + 1)
                 b == SkipWs(t, r.pos)
             IN  IF Match(t, i, T_ErrorName) THEN EvalError(t, i + Len(T_ErrorName))
                 ELSE IF r.err # "" THEN r
                 ELSE IF At(t, b) = ")" THEN Ok(r.val, b + 1)
                 ELSE IF At(t, b) = "" THEN Fail(T_SyntaxError)
                 ELSE Fail(T_Unsupported))
      [] c = "/" ->
            (LET e == RegExpBodyEnd(t, i + 1)
                 f == RunEnd(t, e + 1, IdPart)
             IN  IF e = 0 \/ e = i + 1 THEN Fail(T_Unsupported)
                 ELSE Ok(RegExpV(Slice(t, i + 1, e), Slice(t, e + 1, f)), f))
      [] c \in IdStart ->
            (LET e == RunEnd(t, i, IdPart)
                 w == Slice(t, i, e)
             IN  CASE w = <<"n", "u", "l", "l">> -> Ok(Null, e)
                   [] w = <<"u", "n", "d", "e", "f", "i", "n", "e", "d">> -> Ok(Undefined, e)
                   [] w = <<"t", "r", "u", "e">> -> Ok(Bool(TRUE), e)
                   [] w = <<"f", "a", "l", "s", "e">> -> Ok(Bool(FALSE), e)
                   [] w = <<"N", "a", "N">> -> Ok(NaN, e)
                   [] w = <<"I", "n", "f", "i", "n", "i", "t", "y">> -> Ok(Infinity, e)
                   [] w = <<"n", "e", "w">> -> EvalNew(t, e)
                   [] w = <<"S", "y", "m", "b", "o", "l">> -> EvalSymbol(t, i, e)
                   [] w \in ReservedWords -> Fail(T_SyntaxError)
                   [] OTHER -> Fail(T_Unsupported))
      [] OTHER -> Fail(T_SyntaxError)

\* an expression at or after i: here, a primary or unary expression; an
\* operator after it is outside the modelled grammar
EvalExpr(t, i) == EvalPrimary(t, SkipWs(t, i))

\* Function('"use strict"; return (' + cleaned + ')')(): [threw, err, val]
Eval(cleaned) ==
    LET body == <<"(">> \o cleaned \o <<")">>
        r == EvalExpr(body, 1)
    IN  IF r.err # "" THEN [threw |-> TRUE, err |-> r.err, val |-> NoValue]
        ELSE IF SkipWs(body, r.pos) <= Len(body)
        THEN [threw |-> TRUE, err |-> T_Unsupported, val |-> NoValue]
        ELSE [threw |-> FALSE, err |-> "", val |-> r.val]

W_export == <<"e", "x", "p", "o", "r", "t">>
W_default == <<"d", "e", "f", "a", "u", "l", "t">>
W_module == <<"m", "o", "d", "u", "l", "e">>
W_exports == <<"e", "x", "p", "o", "r", "t", "s">>

\* a WrapperEnd that allows no white space around the dot
WrapperEndStrictDot(code) ==
    LET a == SkipWs(code, 1)
        b == SkipWs1(code, a + Len(W_export))
        c == a + Len(W_module)
        d == c + 1
        word == IF Match(code, a, W_export) /\ b > 0 /\ Match(code, b, W_default)
                THEN b + Len(W_default)
                ELSE IF Match(code, a, W_module) /\ At(code, c) = "."
                        /\ Match(code, d, W_exports)
                THEN d + Len(W_exports)
                ELSE 0
        e == SkipWs(code, word)
    IN  IF word = 0 THEN 0
        ELSE IF At(code, e) = "=" THEN SkipWs(code, e + 1) ELSE e

\* a WrapperEnd that leaves the '=' in the text
WrapperEndKeepsAssign(code) ==
    LET a == SkipWs(code, 1)
        b == SkipWs1(code, a + Len(W_export))
        c == SkipWs(code, a + Len(W_module))
        d == SkipWs(code, c + 1)
        word == IF Match(code, a, W_export) /\ b > 0 /\ Match(code, b, W_default)
                THEN b + Len(W_default)
                ELSE IF Match(code, a, W_module) /\ At(code, c) = "."
                        /\ Match(code, d, W_exports)
                THEN d + Len(W_exports)
                ELSE 0
    IN  IF word = 0 THEN 0 ELSE SkipWs(code, word)

\* the end (exclusive) of the match at the start of the text of
\* /^\s*(?:export\s+default|module\s*\.\s*exports)\s*(?:=\s*)?/ , 0 if none
WrapperEnd(code) ==
    LET a == SkipWs(code, 1)
        b == SkipWs1(code, a + Len(W_export))
        c == SkipWs(code, a + Len(W_module))
        d == SkipWs(code, c + 1)
        word == IF Match(code, a, W_export) /\ b > 0 /\ Match(code, b, W_default)
                THEN b + Len(W_default)
                ELSE IF Match(code, a, W_module) /\ At(code, c) = "."
                        /\ Match(code, d, W_exports)
                THEN d + Len(W_exports)
                ELSE 0
        e == SkipWs(code, word)
    IN  IF word = 0 THEN 0
        ELSE IF At(code, e) = "=" THEN SkipWs(code, e + 1) ELSE e

\* code.replace(/^\s*(?:export ... )?/, '')
StripWrapper(code) ==
    IF WrapperEnd(code) = 0 THEN code
    ELSE SubSeq(code, WrapperEnd(code), Len(code))

\* parse(code): [threw, err, val]
parse(code) == Eval(StripWrapper(code))

----------------------------------------------------------------------------
(* The program: it builds containers, mutates them and calls stringify *)

NoCall == [threw |-> FALSE, err |-> "none", text |-> <<>>]
NoParse == [threw |-> FALSE, err |-> "none", val |-> NoValue]
NoInner == [arg |-> NoValue, threw |-> FALSE, err |-> "none", text |-> <<>>]

\* stringify has been called on the heap as it is
Called == arg # NoValue

NoModule == [options |-> NoValue, threw |-> FALSE, err |-> "none", text |-> <<>>]
NoCode == <<"none">>

\* the indent option the programs construct the instance with
IndentOptions == {Undefined, Num(2)}

KeyA == Str(<<"a">>)
KeyB == Str(<<"b">>)

ObjIds == 1..Len(heap)
Values == {Ref(o) : o \in ObjIds}

Init ==
    /\ heap = <<>>
    /\ indent \in IndentOptions
    /\ _indent = constructor(indent)
    /\ _exists = {}
    /\ ops = 0
    /\ arg = NoValue
    /\ ret = NoCall
    /\ repeat = FALSE
    /\ root = NoValue
    /\ moduleCall = NoModule
    /\ parseArg = NoCode
    /\ parsed = NoParse
    /\ class = "PseudoJSON"
    /\ frames = <<>>
    /\ entered = 0
    /\ reentry = NoInner

\* a mutation of the heap: the earlier call no longer speaks of this value
Forget ==
    /\ arg' = NoValue
    /\ ret' = NoCall
    /\ repeat' = FALSE

\* {} / [] / new Map() / new Set()
NewContainer(kind) ==
    /\ ops < MaxOps
    /\ heap' = Append(heap, [kind |-> kind, keys |-> <<>>, items |-> <<>>])
    /\ ops' = ops + 1
    /\ Forget
    /\ UNCHANGED <<indent, _indent, _exists, root, moduleCall, parseArg, parsed, progress>>

\* obj[key] = v / map.set(key, v): overwrite an existing key, else append
Put(obj, key, v) ==
    LET j == IndexOf(obj.keys, key) IN
    IF j > 0 THEN [obj EXCEPT !.items[j] = v]
    ELSE [obj EXCEPT !.keys = Append(@, key), !.items = Append(@, v)]

\* o[key] = v on a record
SetProperty(o, key, v) ==
    /\ heap[o].kind = "record"
    /\ ops < MaxOps
    /\ heap' = [heap EXCEPT ![o] = Put(@, key, v)]
    /\ ops' = ops + 1
    /\ Forget
    /\ UNCHANGED <<indent, _indent, _exists, root, moduleCall, parseArg, parsed, progress>>

\* o.push(v) on an array
Push(o, v) ==
    /\ heap[o].kind = "array"
    /\ ops < MaxOps
    /\ heap' = [heap EXCEPT ![o].items = Append(@, v)]
    /\ ops' = ops + 1
    /\ Forget
    /\ UNCHANGED <<indent, _indent, _exists, root, moduleCall, parseArg, parsed, progress>>

\* o.set(key, v) on a Map
MapSet(o, key, v) ==
    /\ heap[o].kind = "map"
    /\ ops < MaxOps
    /\ heap' = [heap EXCEPT ![o] = Put(@, key, v)]
    /\ ops' = ops + 1
    /\ Forget
    /\ UNCHANGED <<indent, _indent, _exists, root, moduleCall, parseArg, parsed, progress>>

\* o.add(v) on a Set: no effect when v is already a member
SetAdd(o, v) ==
    /\ heap[o].kind = "set"
    /\ ops < MaxOps
    /\ heap' = [heap EXCEPT ![o].items =
                    IF IndexOf(@, v) > 0 THEN @ ELSE Append(@, v)]
    /\ ops' = ops + 1
    /\ Forget
    /\ UNCHANGED <<indent, _indent, _exists, root, moduleCall, parseArg, parsed, progress>>

\* try { js.stringify(v) } catch (e) {}
CallStringify(v) ==
    LET r == stringify(_exists, v) IN
    /\ _exists' = r.exists
    /\ repeat' = (arg = v)
    /\ arg' = v
    /\ ret' = [threw |-> r.threw, err |-> r.err, text |-> r.text]
    /\ UNCHANGED <<heap, indent, _indent, ops, root, moduleCall, parseArg, parsed, progress>>

Next ==
    \/ \E kind \in Kinds : NewContainer(kind)
    \/ \E o \in ObjIds, key \in {KeyA, KeyB}, v \in Values : SetProperty(o, key, v)
    \/ \E o \in ObjIds, v \in Values : Push(o, v)
    \/ \E o \in ObjIds, key \in {KeyA} \cup {Ref(p) : p \in ObjIds}, v \in Values :
           MapSet(o, key, v)
    \/ \E o \in ObjIds, v \in Values : SetAdd(o, v)
    \/ \E v \in Values : CallStringify(v)

Spec == Init /\ [][Next]_vars

----------------------------------------------------------------------------
(* The round-trip program: it builds a tree-shaped value around a leaf,    *)
(* renders it and loads the text back                                      *)

Leaves ==
    { Null, Undefined, Bool(TRUE),
      Str(<<>>), Str(<<"a", " ", "b">>), Str(<<"\"", "\\", "\n", "\t">>),
      Num(0), Num(0 - 1), NegZero, NaN, Infinity, NegInfinity,
      BigInt(0), BigInt(0 - 5),
      Sym(FALSE, FALSE, <<>>, 1), Sym(FALSE, TRUE, <<>>, 2),
      Sym(FALSE, TRUE, <<"k">>, 3), Sym(FALSE, TRUE, <<"\"">>, 4),
      Sym(TRUE, TRUE, <<"k">>, 0), Sym(TRUE, TRUE, <<>>, 0),
      DateV(TRUE, 1728), DateV(FALSE, 0),
      RegExpV(<<"\\", "/", "+">>, <<"g", "i">>) }

\* the own keys the program gives a record
Keys ==
    { Str(<<"a">>), Str(<<"a", "-", "b">>),
      Sym(FALSE, TRUE, <<"k">>, 5), Sym(FALSE, FALSE, <<>>, 6),
      Sym(TRUE, TRUE, <<"k">>, 0), Sym(TRUE, TRUE, <<>>, 0) }

Wrappers == {"record", "array", "set", "mapKey", "mapValue"}

\* the j-th further member the program puts beside the wrapped value
SiblingKey(j) == Str(<<"s", Digit(j)>>)
SiblingValue(j) == Num(6 + j)

\* the container built around value v: v is its first member, but in a
\* record under a symbol key its last, as own string keys precede own
\* symbol keys
Wrapped(wrapper, key, n, v) ==
    LET sk == [j \in 1..n |-> SiblingKey(j)]
        sv == [j \in 1..n |-> SiblingValue(j)]
    IN  CASE wrapper = "record" ->
                (IF key.t = "symbol"
                 THEN [kind |-> "record", keys |-> sk \o <<key>>, items |-> sv \o <<v>>]
                 ELSE [kind |-> "record", keys |-> <<key>> \o sk, items |-> <<v>> \o sv])
          [] wrapper = "array" ->
                [kind |-> "array", keys |-> <<>>, items |-> <<v>> \o sv]
          [] wrapper = "set" ->
                [kind |-> "set", keys |-> <<>>, items |-> <<Stored(v)>> \o sv]
          [] wrapper = "mapKey" ->
                [kind |-> "map", keys |-> <<Stored(v)>> \o sk,
                 items |-> <<SiblingValue(0)>> \o sv]
          [] OTHER ->
                [kind |-> "map", keys |-> <<SiblingKey(0)>> \o sk, items |-> <<v>> \o sv]

InitRT ==
    /\ heap = <<>>
    /\ indent \in IndentOptions
    /\ _indent = constructor(indent)
    /\ _exists = {}
    /\ ops = 0
    /\ arg = NoValue
    /\ ret = NoCall
    /\ repeat = FALSE
    /\ root \in Leaves
    /\ moduleCall = NoModule
    /\ parseArg = NoCode
    /\ parsed = NoParse
    /\ class = "PseudoJSON"
    /\ frames = <<>>
    /\ entered = 0
    /\ reentry = NoInner

\* v = {key: v, ...} / [v, ...] / new Set([v, ...]) / new Map([[v, 6], ...])
\* / new Map([["s0", v], ...])
Wrap(wrapper, key, n) ==
    /\ Len(heap) < MaxDepth
    /\ heap' = Append(heap, Wrapped(wrapper, key, n, root))
    /\ root' = Ref(Len(heap) + 1)
    /\ ops' = ops + 1
    /\ Forget
    /\ moduleCall' = NoModule
    /\ parseArg' = NoCode
    /\ parsed' = NoParse
    /\ UNCHANGED <<indent, _indent, _exists, progress>>

\* text = js.stringify(v)
RenderRoot ==
    /\ ~Called
    /\ CallStringify(root)

\* js.parse(text)
CallParse ==
    /\ Called /\ ~ret.threw
    /\ parsed = NoParse
    /\ parseArg' = ret.text
    /\ LET r == parse(ret.text) IN
       parsed' = [threw |-> r.threw, err |-> r.err, val |-> r.val]
    /\ UNCHANGED <<heap, indent, _indent, _exists, ops, arg, ret, repeat, root, moduleCall, progress>>

\* the wrapped leaf gets any key and any number of siblings; a container
\* around a container gets the key a and MaxSiblings siblings
NextRT ==
    \/ \E key \in Keys, n \in 0..MaxSiblings : heap = <<>> /\ Wrap("record", key, n)
    \/ \E wrapper \in Wrappers \ {"record"}, n \in 0..MaxSiblings :
           heap = <<>> /\ Wrap(wrapper, KeyA, n)
    \/ \E wrapper \in Wrappers : heap # <<>> /\ Wrap(wrapper, KeyA, MaxSiblings)
    \/ RenderRoot
    \/ CallParse

SpecRT == InitRT /\ [][NextRT]_vars

\* the value of v with its containers by value
RECURSIVE Unfold(_)
Unfold(v) ==
    IF ~IsRef(v) THEN v
    ELSE LET obj == heap[v.id] IN
         Tree(obj.kind,
              [j \in DOMAIN obj.keys |-> Unfold(obj.keys[j])],
              [j \in DOMAIN obj.items |-> Unfold(obj.items[j])])

\* v up to what deep equality ignores here: which unique symbol it is, and
\* the sign of zero
RECURSIVE Canon(_)
Canon(v) ==
    CASE v.t = "symbol" -> [v EXCEPT !.uid = 0]
      [] v = NegZero -> Num(0)
      [] v.t \in Kinds ->
            Tree(v.t, [j \in DOMAIN v.keys |-> Canon(v.keys[j])],
                      [j \in DOMAIN v.items |-> Canon(v.items[j])])
      [] OTHER -> v

DeepEqual(a, b) == Canon(a) = Canon(b)

Parsed == parsed # NoParse

----------------------------------------------------------------------------
(* The container graph of the heap *)

Range(f) == {f[j] : j \in DOMAIN f}

\* the containers a container refers to: its members, and a Map's keys too
Children(o) == {x.id : x \in {y \in Range(heap[o].keys) \cup Range(heap[o].items) : IsRef(y)}}

RECURSIVE Closure(_)
Closure(S) ==
    LET S2 == S \cup UNION {Children(o) : o \in S} IN
    IF S2 = S THEN S ELSE Closure(S2)

\* the containers reachable from a value, the value itself included
Reach(v) == IF IsRef(v) THEN Closure({v.id}) ELSE {}

\* o is nested in itself
OnCycle(o) == o \in Closure(Children(o))

HasCycle(v) == \E o \in Reach(v) : OnCycle(o)

\* the positions of the value at which container o occurs
Positions(v, o) ==
    UNION {{<<p, "key", j>> : j \in {i \in DOMAIN heap[p].keys : heap[p].keys[i] = Ref(o)}}
             \cup {<<p, "item", j>> :
                     j \in {i \in DOMAIN heap[p].items : heap[p].items[i] = Ref(o)}} :
           p \in Reach(v)}
    \cup (IF v = Ref(o) THEN {<<0, "root", 0>>} ELSE {})

\* some container occurs at two positions of the value without being
\* nested in itself
HasShared(v) ==
    \E o \in Reach(v) : ~OnCycle(o) /\ Cardinality(Positions(v, o)) >= 2

TreeShaped(v) == \A o \in Reach(v) : ~OnCycle(o) /\ Cardinality(Positions(v, o)) = 1

\* the outcome of the same call on a freshly constructed instance
Fresh(v) ==
    LET r == stringify({}, v) IN [threw |-> r.threw, err |-> r.err, text |-> r.text]

----------------------------------------------------------------------------
(* Claims C1 - C5: the visited set across calls *)

\* C1: between top-level stringify calls, whether the latest call returned
\* or raised, the instance's visited set is empty.
C1_VisitedSetEmpty == _exists = {}

\* C2: the outcome of every stringify call on the instance equals the
\* outcome of the same call on a fresh instance with the same indent.
C2_SameAsFreshInstance == Called => ret = Fresh(arg)

C4_SharedRaisesTypeError ==
    (Called /\ HasShared(arg)) => (ret.threw /\ ret.err = T_TypeError)

\* a call on an acyclic value with a shared container has raised
C4_Witness ==
    /\ Called /\ HasShared(arg) /\ ~HasCycle(arg)
    /\ ret.threw /\ ret.err = T_TypeError

\* C5: a stringify call that repeats the argument of the call before it,
\* on an unmodified tree-shaped value, succeeds as the call before it did
\* and returns the same text.
C5_RepeatedCallSameText ==
    [][(repeat' /\ TreeShaped(arg'))
          => (~ret.threw /\ ~ret'.threw /\ ret'.text = ret.text)]_vars

----------------------------------------------------------------------------
(* Claims C6 - C10: the round trip, symbols and big integers *)

\* the tree has only leaves of the kinds C6 names; record keys are free
RECURSIVE Covered(_)
Covered(v) ==
    IF v.t \in Kinds
    THEN /\ \A j \in DOMAIN v.items : Covered(v.items[j])
         /\ v.t = "map" => \A j \in DOMAIN v.keys : Covered(v.keys[j])
    ELSE v.t \in {"null", "undefined", "string", "number", "boolean", "date", "regexp"}

\* C6: for a tree-shaped value of nulls, undefineds, strings, numbers,
\* booleans, dates, regular expressions, Maps, Sets, arrays and records
\* with string or symbol keys, parse(stringify(v)) returns a value deeply
\* equal to v, for every indent.
C6_RoundTrip ==
    (Parsed /\ Covered(Unfold(arg)))
        => (~parsed.threw /\ DeepEqual(parsed.val, Unfold(arg)))

T_SymbolFor(K) ==
    <<"S", "y", "m", "b", "o", "l", ".", "f", "o", "r", "(">> \o jsonStrfy(K) \o <<")">>

HasPrefix(text, prefix) ==
    Len(prefix) <= Len(text) /\ SubSeq(text, 1, Len(prefix)) = prefix

\* the opening of the text of a record whose first key is a symbol
RecordOpening(symbolText) ==
    <<"{">> \o (IF _indent = <<>> THEN <<>> ELSE <<"\n">> \o _indent)
        \o <<"[">> \o symbolText \o <<"]", ":", " ">>

\* the value of the latest call is a record whose first key is a symbol
FirstKeyIsSymbol ==
    /\ Called /\ IsRef(arg)
    /\ heap[arg.id].kind = "record"
    /\ heap[arg.id].keys[1].t = "symbol"

\* C7: a symbol registered under key K, the empty string included,
\* renders as Symbol.for(<K quoted>), as a value and as a record key.
C7_RegisteredSymbolForm ==
    /\ (Called /\ arg.t = "symbol" /\ arg.reg)
          => (~ret.threw /\ ret.text = T_SymbolFor(arg.desc))
    /\ (FirstKeyIsSymbol /\ heap[arg.id].keys[1].reg)
          => (~ret.threw
              /\ HasPrefix(ret.text, RecordOpening(T_SymbolFor(heap[arg.id].keys[1].desc))))

\* C8: a symbol that is not registered renders as Symbol() when it has no
\* description and as Symbol(<D quoted>) when it has description D; the
\* empty description renders as Symbol("").
C8_UniqueSymbolForm ==
    (Called /\ arg.t = "symbol" /\ ~arg.reg)
        => /\ ~ret.threw
           /\ ~arg.hasDesc => ret.text = <<"S", "y", "m", "b", "o", "l", "(", ")">>
           /\ arg.hasDesc =>
                 ret.text = <<"S", "y", "m", "b", "o", "l", "(">>
                                \o jsonStrfy(arg.desc) \o <<")">>
           /\ (arg.hasDesc /\ arg.desc = <<>>) =>
                 ret.text = <<"S", "y", "m", "b", "o", "l", "(", "\"", "\"", ")">>

\* Symbol('') has been rendered, as Symbol("")
C8_Witness ==
    /\ Called /\ arg = Sym(FALSE, TRUE, <<>>, 2)
    /\ ret.text = <<"S", "y", "m", "b", "o", "l", "(", "\"", "\"", ")">>

\* C9: parse(stringify(s)) of a symbol s is registered under key K exactly
\* when s is, and is otherwise a unique symbol with the description of s,
\* or with none when s has none.
C9_SymbolRoundTrip ==
    (Parsed /\ arg.t = "symbol")
        => /\ ~parsed.threw
           /\ parsed.val.t = "symbol"
           /\ parsed.val.reg = arg.reg
           /\ parsed.val.hasDesc = arg.hasDesc
           /\ parsed.val.desc = arg.desc

\* C10: parse(stringify(b)) of a big integer b is the big integer b.
C10_BigIntRoundTrip ==
    (Parsed /\ arg.t = "bigint") => (~parsed.threw /\ parsed.val = arg)

----------------------------------------------------------------------------
(* The module program: it builds a value, renders it, generates a module   *)
(* from it and loads module texts                                          *)

Generated == moduleCall # NoModule

ModuleLeaves ==
    { Null, Str(<<"a", "\"", "\n">>), Num(0 - 1),
      ErrorV(<<"E">>, <<"m">>, Str(<<"a", "t", "\n">>)), ErrorV(<<"E">>, <<>>, Undefined) }
ModuleKeys == { KeyA, Str(<<"a", "-", "b">>) }

Umd == Str(<<"u", "m", "d">>)
ModuleTypes == { Undefined, Null, Esm, Cjs, Umd }

\* statements a caller puts above the export line
Prelude == <<"c", "o", "n", "s", "t", " ", "a", " ", "=", " ", "1", ";">>

CodeAboveExports ==
    { Undefined, Str(Prelude), Num(0), Num(5), Null, Bool(FALSE) }

\* the wrapper texts the program writes before an expression
WrapperForms ==
    { <<>>,
      W_exportDefault,
      <<" ", "\n", "\t">> \o W_export \o <<" ", "\t", "\n">> \o W_default \o <<"\n", " ">>,
      W_moduleExports,
      W_module \o <<".">> \o W_exports \o <<" ">>,
      W_module \o <<"\t", ".", "\n">> \o W_exports \o <<"=">>,
      <<" ", " ">> \o W_module \o <<" ", ".", " ">> \o W_exports
          \o <<" ", " ", "=", "\n", " ">> }

\* the lines the program writes above the wrapper: none, or the prelude
Aboves == { <<>>, Prelude \o <<"\n">> }

InitMod ==
    /\ heap = <<>>
    /\ indent \in IndentOptions
    /\ _indent = constructor(indent)
    /\ _exists = {}
    /\ ops = 0
    /\ arg = NoValue
    /\ ret = NoCall
    /\ repeat = FALSE
    /\ root \in ModuleLeaves
    /\ moduleCall = NoModule
    /\ parseArg = NoCode
    /\ parsed = NoParse
    /\ class = "PseudoJSON"
    /\ frames = <<>>
    /\ entered = 0
    /\ reentry = NoInner

\* try { js.generateExportModule(jsonCode, options) } catch (e) {}
CallGenerate(jsonCode, options) ==
    LET r == generateExportModule(_exists, jsonCode, options) IN
    /\ _exists' = r.exists
    /\ moduleCall' = [options |-> options, threw |-> r.threw, err |-> r.err,
                      text |-> r.text]
    /\ UNCHANGED <<heap, indent, _indent, ops, arg, ret, repeat, root, parseArg, parsed, progress>>

\* module = js.generateExportModule(v, options), after text = js.stringify(v)
GenerateRoot(options) ==
    /\ Called
    /\ ~Generated
    /\ parsed = NoParse
    /\ CallGenerate(root, options)

\* js.parse(module)
ParseModule ==
    /\ Generated /\ ~moduleCall.threw
    /\ parsed = NoParse
    /\ parseArg' = moduleCall.text
    /\ LET r == parse(moduleCall.text) IN
       parsed' = [threw |-> r.threw, err |-> r.err, val |-> r.val]
    /\ UNCHANGED <<heap, indent, _indent, _exists, ops, arg, ret, repeat, root, moduleCall, progress>>

\* js.parse(above + wrapper + text)
ParseCode(above, wrapper) ==
    /\ Called /\ ~ret.threw
    /\ ~Generated
    /\ parsed = NoParse
    /\ parseArg' = above \o wrapper \o ret.text
    /\ LET r == parse(above \o wrapper \o ret.text) IN
       parsed' = [threw |-> r.threw, err |-> r.err, val |-> r.val]
    /\ UNCHANGED <<heap, indent, _indent, _exists, ops, arg, ret, repeat, root, moduleCall, progress>>

NextMod ==
    \/ \E wrapper \in Wrappers, key \in ModuleKeys, n \in 0..MaxSiblings :
           heap = <<>> /\ Wrap(wrapper, key, n)
    \/ \E o \in ObjIds : ~Called /\ ~HasCycle(root) /\ Push(o, Ref(o))
    \/ RenderRoot
    \/ \E type \in ModuleTypes, codeAboveExport \in CodeAboveExports :
           GenerateRoot(Options(type, codeAboveExport))
    \/ ParseModule
    \/ \E above \in Aboves, wrapper \in WrapperForms : ParseCode(above, wrapper)

SpecMod == InitMod /\ [][NextMod]_vars

----------------------------------------------------------------------------
(* Claims C11 - C17: the module generator and the wrapper stripping *)

LastIs(text, c) == text # <<>> /\ text[Len(text)] = c

Above(text, preamble) ==
    \E i \in 1..Len(text), j \in 1..Len(text) :
        /\ i + Len(preamble) <= j
        /\ SubSeq(text, i, i + Len(preamble) - 1) = preamble
        /\ Match(text, j, W_exportDefault) \/ Match(text, j, W_moduleExports)

\* C12: with a non-empty string codeAboveExport, the returned module text
\* contains that preamble verbatim above the export line.
C12_PreambleAboveExport ==
    (Generated /\ ~moduleCall.threw
        /\ moduleCall.options.codeAboveExport.t = "string"
        /\ moduleCall.options.codeAboveExport.s # <<>>)
        => Above(moduleCall.text, moduleCall.options.codeAboveExport.s)

\* a module type that is neither supported nor absent (undefined, null)
Unsupported(type) == type \notin {Undefined, Null, Esm, Cjs}

\* the codeAboveExport value passes the string check
PassesStringCheck(codeAboveExport) ==
    codeAboveExport.t = "string" \/ ~ToBoolean(codeAboveExport)

\* C13 as stated: a call with a module type other than 'esm' or 'cjs'
\* raises the 'Unsupported module type' error and returns no text.
C13_UnsupportedTypeError ==
    (Generated /\ Unsupported(moduleCall.options.type))
        => (moduleCall.threw /\ moduleCall.err = T_UnsupportedModule
            /\ moduleCall.text = <<>>)

\* C13 amended: a call with a module type other than 'esm' or 'cjs' always
\* raises and returns no text, never falling back to a supported form; the
\* error is the codeAboveExport TypeError when that check fails, else the
\* error of stringify(data) when it raises, else 'Unsupported module type'.
C13_UnsupportedTypeRaises ==
    (Called /\ Generated /\ Unsupported(moduleCall.options.type))
        => /\ moduleCall.threw
           /\ moduleCall.text = <<>>
           /\ moduleCall.err =
                 IF ~PassesStringCheck(moduleCall.options.codeAboveExport)
                 THEN T_CodeAboveExport
                 ELSE IF ret.threw THEN ret.err
                 ELSE T_UnsupportedModule

\* a call with type 'umd' on a renderable value has raised the
\* 'Unsupported module type' error
C13_Witness ==
    /\ Called /\ ~ret.threw /\ Generated
    /\ moduleCall.options.type = Umd
    /\ moduleCall.threw /\ moduleCall.err = T_UnsupportedModule

\* C14: every codeAboveExport that is supplied and is no string, the falsy
\* 0, false and null included, makes generateExportModule raise the
\* TypeError and return no text.
C14_NonStringPreambleRaises ==
    (Generated /\ moduleCall.options.codeAboveExport # Undefined
        /\ moduleCall.options.codeAboveExport.t # "string")
        => (moduleCall.threw /\ moduleCall.err = T_CodeAboveExport
            /\ moduleCall.text = <<>>)

\* the outcome of executing the expression text alone
ValueOf(E) == LET r == Eval(E) IN [threw |-> r.threw, err |-> r.err, val |-> r.val]

\* C15: parse returns the value of the expression text E for E alone, for
\* E after 'export default' and for E after 'module.exports' with or
\* without '=', whatever white space stands before the wrapper, between its
\* words, around the dot and around the '='.
C15_WrapperStripped ==
    \A wrapper \in WrapperForms :
        (Parsed /\ Called /\ parseArg = wrapper \o ret.text) => parsed = ValueOf(ret.text)

\* a container has been loaded from a CommonJS form with white space
\* around the dot and the '='
C15_Witness ==
    /\ Parsed /\ Called /\ IsRef(root)
    /\ parseArg = <<" ", " ">> \o W_module \o <<" ", ".", " ">> \o W_exports
                      \o <<" ", " ", "=", "\n", " ">> \o ret.text
    /\ ~parsed.threw /\ DeepEqual(parsed.val, Unfold(root))

\* C16: with statements on earlier lines and a final export line, parse
\* executes the statements and returns the value of the exported
\* expression.
C16_EarlierLinesKept ==
    \A wrapper \in {W_exportDefault, W_moduleExports} :
        (Parsed /\ Called /\ parseArg = Prelude \o <<"\n">> \o wrapper \o ret.text)
            => parsed = ValueOf(ret.text)

\* stringify and parse alone round-trip the rendered value
RoundTrips ==
    LET direct == parse(ret.text) IN
    Called /\ ~ret.threw /\ ~direct.threw /\ DeepEqual(direct.val, Unfold(arg))

\* C17: for a value v that round-trips through stringify and parse, both
\* module kinds and every indent, parse(generateExportModule(v, {type})) is
\* deeply equal to v.
C17_ModuleRoundTrip ==
    (Parsed /\ Generated /\ parseArg = moduleCall.text /\ RoundTrips)
        => (~parsed.threw /\ DeepEqual(parsed.val, Unfold(arg)))

\* an indented container has come back from its CommonJS module
C17_Witness ==
    /\ Parsed /\ Generated /\ parseArg = moduleCall.text /\ RoundTrips
    /\ moduleCall.options.type = Cjs
    /\ IsRef(root) /\ _indent # <<>>
    /\ ~parsed.threw /\ DeepEqual(parsed.val, Unfold(root))

----------------------------------------------------------------------------
(* The layout program: it constructs the instance with any indent option,  *)
(* builds nested containers around a leaf and renders them                 *)

LayoutIndentOptions ==
    { Undefined, Null, Num(0), Str(<<>>), Num(1), Num(2), Str(<<"\t">>) }

LayoutLeaves == { Null, Num(7), Str(<<"a", "\n">>) }

InitLayout ==
    /\ heap = <<>>
    /\ indent \in LayoutIndentOptions
    /\ _indent = constructor(indent)
    /\ _exists = {}
    /\ ops = 0
    /\ arg = NoValue
    /\ ret = NoCall
    /\ repeat = FALSE
    /\ root \in LayoutLeaves
    /\ moduleCall = NoModule
    /\ parseArg = NoCode
    /\ parsed = NoParse
    /\ class = "PseudoJSON"
    /\ frames = <<>>
    /\ entered = 0
    /\ reentry = NoInner

\* v = {} / [] / new Map() / new Set()
Empty(kind) ==
    /\ heap = <<>>
    /\ heap' = <<[kind |-> kind, keys |-> <<>>, items |-> <<>>]>>
    /\ root' = Ref(1)
    /\ ops' = ops + 1
    /\ Forget
    /\ UNCHANGED <<indent, _indent, _exists, moduleCall, parseArg, parsed, progress>>

NextLayout ==
    \/ \E kind \in Kinds : Empty(kind)
    \/ \E wrapper \in Wrappers, n \in 0..MaxSiblings : heap = <<>> /\ Wrap(wrapper, KeyA, n)
    \/ \E wrapper \in Wrappers : heap # <<>> /\ Wrap(wrapper, KeyA, MaxSiblings)
    \/ RenderRoot

SpecLayout == InitLayout /\ [][NextLayout]_vars

----------------------------------------------------------------------------
(* Claims C18 - C20: the layout *)

\* the text _stringify returns for v in the indentation context c
Rendered(v, c) == _stringify(v, c, {}, 0).text

SetText(members) ==
    <<"n", "e", "w", " ", "S", "e", "t", "(", "[">> \o Join(members, <<",", " ">>)
        \o <<"]", ")">>

MapText(keys, values) ==
    <<"n", "e", "w", " ", "M", "a", "p", "(", "[">>
        \o Join([j \in DOMAIN keys |->
                    <<"[">> \o keys[j] \o <<",", " ">> \o values[j] \o <<"]">>],
                <<",", " ">>)
        \o <<"]", ")">>

\* the indentation contexts a container of the value can be rendered in
Contexts == { <<>>, _indent, _indent \o _indent }

\* C18: for every indent, a Map renders as 'new Map([' + its '[key, value]'
\* entries joined by ', ' + '])' and a Set as 'new Set([' + its members
\* joined by ', ' + '])', in iteration order, with no line break or
\* indentation between the entries; each key, value and member is rendered
\* in the indentation context of the Map or Set itself.
C18_MapSetInline ==
    (Called /\ ~ret.threw)
        => /\ \A o \in ObjIds, c \in Contexts :
                 /\ heap[o].kind = "set" =>
                       Rendered(Ref(o), c) =
                           SetText([j \in DOMAIN heap[o].items |->
                                       Rendered(heap[o].items[j], c)])
                 /\ heap[o].kind = "map" =>
                       Rendered(Ref(o), c) =
                           MapText([j \in DOMAIN heap[o].keys |->
                                       Rendered(heap[o].keys[j], c)],
                                   [j \in DOMAIN heap[o].items |->
                                       Rendered(heap[o].items[j], c)])
           /\ ret.text = Rendered(arg, <<>>)

\* the value has a container of kind `inner` directly inside one of kind
\* `outer`
Nests(outer, inner) ==
    \E o \in ObjIds, p \in ObjIds :
        /\ heap[o].kind = outer /\ heap[p].kind = inner
        /\ Ref(p) \in Range(heap[o].keys) \cup Range(heap[o].items)

\* with an indent, a Map holding an array and a Set holding a record have
\* been rendered
C18_Witness ==
    /\ Called /\ ~ret.threw /\ _indent # <<>>
    /\ IsRef(arg) /\ heap[arg.id].kind \in {"map", "set"}
    /\ Nests("map", "array") \/ Nests("set", "record")

RECURSIVE Units(_, _)
\* d indent units
Units(unit, d) == IF d <= 0 THEN <<>> ELSE unit \o Units(unit, d - 1)

\* the multi-line form of a container that closes at d indent units
Block(open, close, members, d) ==
    open \o <<"\n">> \o Units(_indent, d + 1)
         \o Join(members, <<",", "\n">> \o Units(_indent, d + 1))
         \o <<"\n">> \o Units(_indent, d) \o close

RECURSIVE LaidOut(_, _, _)
\* the text of v at nesting depth d when every array and record is laid out
\* as a block closing at its depth; a Map or a Set puts its members `step`
\* levels deeper than itself
LaidOut(v, d, step) ==
    IF ~IsRef(v) THEN Leaf(v)
    ELSE LET obj == heap[v.id] IN
         CASE obj.kind = "array" ->
                 (IF obj.items = <<>> THEN <<"[", "]">>
                  ELSE Block(<<"[">>, <<"]">>,
                             [j \in DOMAIN obj.items |-> LaidOut(obj.items[j], d + 1, step)],
                             d))
           [] obj.kind = "record" ->
                 (IF obj.items = <<>> THEN <<"{", "}">>
                  ELSE Block(<<"{">>, <<"}">>,
                             [j \in DOMAIN obj.items |->
                                 KeyStr(obj.keys[j]) \o <<":", " ">>
                                     \o LaidOut(obj.items[j], d + 1, step)],
                             d))
           [] obj.kind = "set" ->
                 SetText([j \in DOMAIN obj.items |-> LaidOut(obj.items[j], d + step, step)])
           [] OTHER ->
                 MapText([j \in DOMAIN obj.keys |-> LaidOut(obj.keys[j], d + step, step)],
                         [j \in DOMAIN obj.items |-> LaidOut(obj.items[j], d + step, step)])

\* C19 as stated: with a non-empty indent unit, every non-empty array or
\* record is a block whose members stand one unit deeper than its closing
\* bracket, and a container nested d levels deep closes at d indent units,
\* whatever containers enclose it.
C19_ClosesAtNestingDepth ==
    (Called /\ ~ret.threw /\ _indent # <<>>) => ret.text = LaidOut(arg, 0, 1)

\* C19 amended: with a non-empty indent unit, every non-empty array or
\* record is a block whose members stand one unit deeper than its closing
\* bracket, and it closes at d indent units when d arrays and records
\* enclose it: an enclosing Map or Set adds no indentation.
C19_ClosesAtBlockDepth ==
    (Called /\ ~ret.threw /\ _indent # <<>>) => ret.text = LaidOut(arg, 0, 0)

\* with an indent, a record inside an array has been rendered: the record
\* closes at one indent unit and the array at none
C19_Witness ==
    /\ Called /\ ~ret.threw /\ _indent # <<>>
    /\ IsRef(arg) /\ heap[arg.id].kind = "array"
    /\ Nests("array", "record")
    /\ ret.text = LaidOut(arg, 0, 0)

RECURSIVE Inline(_)
\* the text of v with every container on one line, members joined by ', '
Inline(v) ==
    IF ~IsRef(v) THEN Leaf(v)
    ELSE LET obj == heap[v.id]
             members == [j \in DOMAIN obj.items |-> Inline(obj.items[j])]
         IN  CASE obj.kind = "array" -> <<"[">> \o Join(members, <<",", " ">>) \o <<"]">>
               [] obj.kind = "record" ->
                     <<"{">> \o Join([j \in DOMAIN obj.items |->
                                         KeyStr(obj.keys[j]) \o <<":", " ">> \o members[j]],
                                     <<",", " ">>) \o <<"}">>
               [] obj.kind = "set" -> SetText(members)
               [] OTHER ->
                     MapText([j \in DOMAIN obj.keys |-> Inline(obj.keys[j])], members)

NoLineBreak(text) == \A j \in DOMAIN text : text[j] # "\n"

----------------------------------------------------------------------------
(* Claims C21 - C30 *)

\* the text sub stands somewhere in the text
Occurs(text, sub) ==
    \E i \in 1..(Len(text) - Len(sub) + 1) : SubSeq(text, i, i + Len(sub) - 1) = sub

EmptyText(kind) ==
    CASE kind = "array" -> <<"[", "]">>
      [] kind = "record" -> <<"{", "}">>
      [] kind = "map" -> <<"n", "e", "w", " ", "M", "a", "p", "(", "[", "]", ")">>
      [] OTHER -> <<"n", "e", "w", " ", "S", "e", "t", "(", "[", "]", ")">>

IsEmpty(o) == heap[o].kind \in Kinds /\ heap[o].items = <<>>

\* C21: for every indent and at every nesting depth, an empty array
\* renders as '[]', a record with no own keys as '{}', an empty Map as
\* 'new Map([])' and an empty Set as 'new Set([])', with no line break or
\* indentation inside.
C21_EmptyContainers ==
    (Called /\ ~ret.threw)
        => \A o \in ObjIds :
               IsEmpty(o) =>
                   /\ \A c \in Contexts : Rendered(Ref(o), c) = EmptyText(heap[o].kind)
                   /\ arg = Ref(o) => ret.text = EmptyText(heap[o].kind)
                   /\ Occurs(ret.text, EmptyText(heap[o].kind))
                   /\ _indent # <<>> => ret.text = LaidOut(arg, 0, 0)
                   /\ _indent = <<>> => ret.text = Inline(arg)

\* with an indent, an empty array nested in other containers has been
\* rendered
C21_Witness ==
    /\ Called /\ ~ret.threw /\ _indent # <<>>
    /\ Len(heap) = MaxDepth
    /\ IsEmpty(1) /\ heap[1].kind = "array"
    /\ Occurs(ret.text, <<" ", "[", "]">>) \/ Occurs(ret.text, <<"\t", "[", "]">>)

\* the text a key has in a pair: a string key as it is, a symbol key as the
\* text stringify returns for the symbol, in brackets
KeyText(key) ==
    IF key.t = "string" THEN key.s ELSE <<"[">> \o Fresh(key).text \o <<"]">>

IsError(v) == v.t = "error"

\* what evaluating a well-formed rendering of the error v yields: an Error
\* with v's message and name, and v's stack text ('' for none)
Rebuilt(v) ==
    ErrorV(v.name, v.message, Str(IF v.stack.t = "undefined" THEN <<>> ELSE v.stack.s))

\* C27: the text stringify returns for an Error is a well-formed
\* self-invoking expression (assign name; assign stack; return e, applied
\* to new Error(message)): executing it yields an error with the original
\* message, name and stack text.
C27_ErrorEvaluates ==
    (Parsed /\ Called /\ IsError(arg) /\ parseArg = ret.text)
        => (~parsed.threw /\ parsed.val = Rebuilt(arg))

----------------------------------------------------------------------------
(* The stepping program: one top-level stringify call advances one         *)
(* _stringify step at a time, so that the visited set is observable during *)
(* the call and a second call can run while the first is in progress (a    *)
(* getter, a Proxy trap or an iterator of the value calling js.stringify)  *)

Running == frames # <<>>

\* the values a container's rendering descends into, in order
Members(obj) == IF obj.kind = "map" THEN Entries(obj) ELSE obj.items

\* the currentIndent a container passes to the _stringify of its members
MemberIndent(obj, currentIndent) ==
    IF obj.kind \in {"array", "record"} THEN currentIndent \o _indent ELSE currentIndent

\* the text a container returns once its members are rendered as texts
Finish(obj, texts, currentIndent) ==
    LET nextIndent == currentIndent \o _indent
        entries == [j \in 1..Len(obj.items) |->
                       <<"[">> \o texts[2 * j - 1] \o <<",", " ">>
                           \o texts[2 * j] \o <<"]">>]
        pairs == [j \in 1..Len(obj.items) |->
                     KeyStr(obj.keys[j]) \o <<":", " ">> \o texts[j]]
    IN  CASE obj.kind = "map" ->
                <<"n", "e", "w", " ", "M", "a", "p", "(", "[">>
                    \o Join(entries, <<",", " ">>) \o <<"]", ")">>
          [] obj.kind = "set" ->
                <<"n", "e", "w", " ", "S", "e", "t", "(", "[">>
                    \o Join(texts, <<",", " ">>) \o <<"]", ")">>
          [] obj.kind = "array" ->
                (IF obj.items = <<>> THEN <<"[", "]">>
                 ELSE Layout(<<"[">>, <<"]">>, texts, currentIndent, nextIndent))
          [] OTHER ->
                (IF obj.items = <<>> THEN <<"{", "}">>
                 ELSE Layout(<<"{">>, <<"}">>, pairs, currentIndent, nextIndent))

\* a Visit that checks and records every object, leaf-like ones included
VisitTracksAll(value, exists, depth) ==
    IF depth >= MaxStack
    THEN [kind |-> "throw", err |-> T_RangeError, text |-> <<>>, exists |-> exists]
    ELSE IF ~IsRef(value)
    THEN [kind |-> "leaf", err |-> "", text |-> Leaf(value), exists |-> exists]
    ELSE LET c == _cyclic(exists, value.id) IN
         IF c.err # ""
         THEN [kind |-> "throw", err |-> c.err, text |-> <<>>, exists |-> c.exists]
         ELSE IF heap[value.id].kind \in LeafLike
         THEN [kind |-> "leaf", err |-> "", text |-> Leaf(heap[value.id].items[1]),
               exists |-> c.exists]
         ELSE [kind |-> "enter", err |-> "", text |-> <<>>, exists |-> c.exists]

\* a Visit whose cycle check never records the container
VisitNeverRecords(value, exists, depth) ==
    IF depth >= MaxStack
    THEN [kind |-> "throw", err |-> T_RangeError, text |-> <<>>, exists |-> exists]
    ELSE IF ~IsRef(value)
    THEN [kind |-> "leaf", err |-> "", text |-> Leaf(value), exists |-> exists]
    ELSE IF heap[value.id].kind \in LeafLike
    THEN [kind |-> "leaf", err |-> "", text |-> Leaf(heap[value.id].items[1]),
          exists |-> exists]
    ELSE LET c == _cyclicNeverRecords(exists, value.id) IN
         IF c.err # ""
         THEN [kind |-> "throw", err |-> c.err, text |-> <<>>, exists |-> c.exists]
         ELSE [kind |-> "enter", err |-> "", text |-> <<>>, exists |-> c.exists]

\* the start of _stringify(value) at call depth `depth` with this._exists =
\* exists: it returns a leaf's text, throws, or enters a container
Visit(value, exists, depth) ==
    IF depth >= MaxStack
    THEN [kind |-> "throw", err |-> T_RangeError, text |-> <<>>, exists |-> exists]
    ELSE IF ~IsRef(value)
    THEN [kind |-> "leaf", err |-> "", text |-> Leaf(value), exists |-> exists]
    ELSE IF heap[value.id].kind \in LeafLike
    THEN [kind |-> "leaf", err |-> "", text |-> Leaf(heap[value.id].items[1]),
          exists |-> exists]
    ELSE LET c == _cyclic(exists, value.id) IN
         IF c.err # ""
         THEN [kind |-> "throw", err |-> c.err, text |-> <<>>, exists |-> c.exists]
         ELSE [kind |-> "enter", err |-> "", text |-> <<>>, exists |-> c.exists]

Frame(o, currentIndent) ==
    [id |-> o, next |-> 1, texts |-> <<>>, currentIndent |-> currentIndent]

\* a Returned that takes the container out of the visited set again
ReturnedForgets(exists, o) == IF Len(frames) = 1 THEN {} ELSE exists \ {o}

\* the visited set after the _stringify call of container o has returned:
\* stringify clears it once the outermost call is back
Returned(exists, o) == IF Len(frames) = 1 THEN {} ELSE exists

\* the values the program builds before it calls stringify
StepHeaps ==
    { \* [{a: null}, 1]
      << [kind |-> "array", keys |-> <<>>, items |-> <<Ref(2), Num(1)>>],
         [kind |-> "record", keys |-> <<KeyA>>, items |-> <<Null>>] >>,
      \* obj.a = obj
      << [kind |-> "record", keys |-> <<KeyA>>, items |-> <<Ref(1)>>] >>,
      \* [new Map([["a", arr]])]
      << [kind |-> "array", keys |-> <<>>, items |-> <<Ref(2)>>],
         [kind |-> "map", keys |-> <<KeyA>>, items |-> <<Ref(1)>>] >>,
      \* {a: shared, b: shared}
      << [kind |-> "record", keys |-> <<KeyA, KeyB>>, items |-> <<Ref(2), Ref(2)>>],
         [kind |-> "set", keys |-> <<>>, items |-> <<>>] >>,
      \* [1, 1, d, d]
      << [kind |-> "array", keys |-> <<>>, items |-> <<Num(1), Num(1), Ref(2), Ref(2)>>],
         [kind |-> "date", keys |-> <<>>, items |-> <<DateV(TRUE, 1728)>>] >>,
      \* new Set([{a: re, b: re}])
      << [kind |-> "set", keys |-> <<>>, items |-> <<Ref(2)>>],
         [kind |-> "record", keys |-> <<KeyA, KeyB>>, items |-> <<Ref(3), Ref(3)>>],
         [kind |-> "regexp", keys |-> <<>>, items |-> <<RegExpV(<<"a">>, <<"g">>)>>] >>,
      \* new Map([[err, err]])
      << [kind |-> "map", keys |-> <<Ref(2)>>, items |-> <<Ref(2)>>],
         [kind |-> "error", keys |-> <<>>,
          items |-> <<ErrorV(<<"E">>, <<"m">>, Undefined)>>] >> }

InitStep ==
    /\ heap \in StepHeaps
    /\ indent \in IndentOptions
    /\ _indent = constructor(indent)
    /\ _exists = {}
    /\ ops = 0
    /\ arg = NoValue
    /\ ret = NoCall
    /\ repeat = FALSE
    /\ root = NoValue
    /\ moduleCall = NoModule
    /\ parseArg = NoCode
    /\ parsed = NoParse
    /\ class = "PseudoJSON"
    /\ frames = <<>>
    /\ entered = 0
    /\ reentry = NoInner

\* js.stringify(v) is called and reaches its first return, throw or descent
Begin(v) ==
    LET r == Visit(v, _exists, 0) IN
    /\ ~Running
    /\ ops < MaxCalls
    /\ ops' = ops + 1
    /\ repeat' = (arg = v)
    /\ arg' = v
    /\ reentry' = NoInner
    /\ entered' = IF r.kind = "enter" THEN 1 ELSE 0
    /\ frames' = IF r.kind = "enter" THEN <<Frame(v.id, <<>>)>> ELSE <<>>
    /\ _exists' = IF r.kind = "leaf" THEN {} ELSE r.exists
    /\ ret' = CASE r.kind = "leaf" -> [threw |-> FALSE, err |-> "", text |-> r.text]
                [] r.kind = "throw" -> [threw |-> TRUE, err |-> r.err, text |-> <<>>]
                [] OTHER -> NoCall
    /\ UNCHANGED <<heap, indent, _indent, root, moduleCall, parseArg, parsed, class>>

\* the innermost container in progress calls _stringify on its next member
Member ==
    /\ Running
    /\ LET top == frames[Len(frames)]
           obj == heap[top.id]
       IN  /\ top.next <= Len(Members(obj))
           /\ LET r == Visit(Members(obj)[top.next], _exists, Len(frames)) IN
              /\ frames' =
                    CASE r.kind = "leaf" ->
                            [frames EXCEPT ![Len(frames)] =
                                [@ EXCEPT !.texts = Append(@, r.text), !.next = @ + 1]]
                      [] r.kind = "throw" -> <<>>
                      [] OTHER ->
                            Append(frames,
                                   Frame(Members(obj)[top.next].id,
                                         MemberIndent(obj, top.currentIndent)))
              /\ _exists' = r.exists
              /\ entered' = IF r.kind = "enter" THEN entered + 1 ELSE entered
              /\ ret' = IF r.kind = "throw"
                        THEN [threw |-> TRUE, err |-> r.err, text |-> <<>>]
                        ELSE ret
    /\ UNCHANGED <<heap, indent, _indent, ops, arg, repeat, root, moduleCall, parseArg,
                   parsed, class, reentry>>

\* the innermost container in progress has rendered its members and returns
Return ==
    /\ Running
    /\ LET n == Len(frames)
           top == frames[n]
           obj == heap[top.id]
           text == Finish(obj, top.texts, top.currentIndent)
       IN  /\ top.next > Len(Members(obj))
           /\ frames' =
                 IF n = 1 THEN <<>>
                 ELSE [SubSeq(frames, 1, n - 1) EXCEPT ![n - 1] =
                          [@ EXCEPT !.texts = Append(@, text), !.next = @ + 1]]
           /\ ret' = IF n = 1 THEN [threw |-> FALSE, err |-> "", text |-> text] ELSE ret
           /\ _exists' = Returned(_exists, top.id)
    /\ UNCHANGED <<heap, indent, _indent, ops, arg, repeat, root, moduleCall, parseArg,
                   parsed, class, entered, reentry>>

\* code of the value being rendered calls js.stringify(v) on the same
\* instance, and that call runs to its end
Reenter(v) ==
    LET r == stringify(_exists, v) IN
    /\ Running
    /\ _exists' = r.exists
    /\ reentry' = [arg |-> v, threw |-> r.threw, err |-> r.err, text |-> r.text]
    /\ UNCHANGED <<heap, indent, _indent, ops, arg, ret, repeat, root, moduleCall,
                   parseArg, parsed, class, frames, entered>>

StepArgs == Values \cup {Num(7)}

NextStep ==
    \/ \E v \in StepArgs : Begin(v)
    \/ Member
    \/ Return
    \/ \E v \in StepArgs : Reenter(v)

SpecStep == InitStep /\ [][NextStep]_vars

\* the same program under a scheduler that lets a call in progress go on
FairStep == SpecStep /\ WF_vars(Member) /\ WF_vars(Return)

----------------------------------------------------------------------------
(* Claims C24 - C26, C29: the visited set during a call *)

\* a top-level call has come to its end
Finished == Called /\ ~Running

\* no other call ran while the latest call was in progress
Alone == reentry = NoInner

\* the latest call is the first one on the instance
FirstCall == ops = 1

\* the Map, Set, array and record objects reachable from a value
Containers(v) == {o \in Reach(v) : heap[o].kind \in Kinds}

\* the containers of the _stringify calls in progress
OnPath == {frames[j].id : j \in DOMAIN frames}

\* no container of the value is nested in itself or occurs twice
ContainerTree(v) ==
    \A o \in Containers(v) : ~OnCycle(o) /\ Cardinality(Positions(v, o)) = 1

\* C24: top-level calls that do not overlap on one instance leave each
\* other's cycle tracking alone: a call that ran alone raises no cyclic-value
\* error a fresh instance would not raise and misses no cycle, i.e. its
\* outcome is that of the same call on an instance of its own.
C24_SerializedCallsIsolated == (Finished /\ Alone) => ret = Fresh(arg)

\* C25: during a top-level call that runs alone, every container on the
\* recursion path is in the visited set, and no step between the call's
\* entry and its exit takes an element out of the visited set.
C25_PathVisited ==
    [][ /\ (Running' /\ Alone') => OnPath' \subseteq _exists'
        /\ (Running /\ Running' /\ Alone') => _exists \subseteq _exists' ]_vars

\* a Map's entry is being rendered two calls deep
C25_Witness ==
    /\ Running /\ Alone /\ Len(frames) = 2
    /\ heap[frames[2].id].kind = "map" /\ frames[2].next = 2
    /\ OnPath = {1, 2} /\ _exists = {1, 2}

\* C26: only Map, Set, array and record objects are ever in the visited
\* set, and a first call on a value whose containers form a tree returns
\* text, wherever the same primitive, Date, RegExp or Error occurs in it.
C26_OnlyContainersVisited ==
    /\ \A o \in _exists : heap[o].kind \in Kinds
    /\ (Finished /\ Alone /\ FirstCall /\ ContainerTree(arg)) => ~ret.threw

\* a value holding one Date, RegExp or Error object at two positions has
\* been rendered
C26_Witness ==
    /\ Finished /\ Alone /\ FirstCall /\ ~ret.threw /\ IsRef(arg)
    /\ \E o \in Reach(arg) :
           heap[o].kind \in LeafLike /\ Cardinality(Positions(arg, o)) = 2

----------------------------------------------------------------------------
(* The other classes of the repository: JsonScript (json-script.ts), which *)
(* keeps no visited set and renders symbols with $stringifySymbol, and     *)
(* JSONScript, whose renderer is PseudoJSON's; each has a parse of its own *)

\* $stringifySymbol(value)
stringifySymbol(value) ==
    IF ~Truthy(keyFor(value))
    THEN <<"S", "y", "m", "b", "o", "l", ".", "f", "o", "r", "(">>
             \o (IF value.hasDesc THEN jsonStrfy(value.desc)
                 ELSE <<"u", "n", "d", "e", "f", "i", "n", "e", "d">>)
             \o <<")">>
    ELSE IF ~value.hasDesc
    THEN <<"S", "y", "m", "b", "o", "l", "(", ")">>
    ELSE <<"S", "y", "m", "b", "o", "l", "(">> \o jsonStrfy(value.desc) \o <<")">>

\* a JsonScript.stringify that checks and records containers as
\* PseudoJSON does
JsonScript_stringifyVisited(value, currentIndent, depth) ==
    LET r == _stringify(value, currentIndent, {}, depth) IN
    [err |-> r.err, text |-> r.text]

\* the text of an array or a record whose members rendered as r
JsonScript_layout(obj, r, currentIndent) ==
    LET nextIndent == currentIndent \o _indent
        pairs == [j \in 1..Len(obj.items) |->
                     (IF obj.keys[j].t = "string" THEN obj.keys[j].s
                      ELSE <<"[">> \o stringifySymbol(obj.keys[j]) \o <<"]">>)
                         \o <<":", " ">> \o r.texts[j]]
    IN  IF r.err # "" THEN [err |-> r.err, text |-> <<>>]
        ELSE IF obj.kind = "array"
        THEN [err |-> "",
              text |-> Layout(<<"[">>, <<"]">>, r.texts, currentIndent, nextIndent)]
        ELSE [err |-> "",
              text |-> Layout(<<"{">>, <<"}">>, pairs, currentIndent, nextIndent)]

RECURSIVE JsonScript_stringify(_, _, _), JsonScript_map(_, _, _, _)

\* value.map / keys.map: the texts of vals[i..], up to the first throw
JsonScript_map(vals, i, nextIndent, depth) ==
    IF i > Len(vals) THEN [err |-> "", texts |-> <<>>]
    ELSE The({ IF r.err # "" THEN [err |-> r.err, texts |-> <<>>]
               ELSE The({ [err |-> rest.err, texts |-> <<r.text>> \o rest.texts] :
                          rest \in {JsonScript_map(vals, i + 1, nextIndent, depth)} }) :
               r \in {JsonScript_stringify(vals[i], nextIndent, depth)} })

\* JsonScript.stringify(value, currentIndent) at call depth `depth`, for
\* values other than bigints and Errors.  [err, text]
JsonScript_stringify(value, currentIndent, depth) ==
    IF depth >= MaxStack THEN [err |-> T_RangeError, text |-> <<>>]
    ELSE IF ~IsRef(value)
    THEN [err |-> "",
          text |-> IF value.t = "symbol" THEN stringifySymbol(value) ELSE Leaf(value)]
    ELSE LET obj == heap[value.id] IN
         CASE obj.kind \in LeafLike -> [err |-> "", text |-> Leaf(obj.items[1])]
           [] obj.kind = "array" /\ obj.items = <<>> -> [err |-> "", text |-> <<"[", "]">>]
           [] obj.kind = "record" /\ obj.items = <<>> -> [err |-> "", text |-> <<"{", "}">>]
           [] obj.kind \in {"array", "record"} /\ obj.items # <<>> ->
                 The({ JsonScript_layout(obj, r, currentIndent) :
                       r \in {JsonScript_map(obj.items, 1, currentIndent \o _indent,
                                             depth + 1)} })
           \* a Map or a Set has no own keys
           [] OTHER -> [err |-> "", text |-> <<"{", "}">>]

W_exportSpaceDefault == W_export \o <<" ">> \o W_default
W_return == <<"r", "e", "t", "u", "r", "n">>

\* the start of the white space that ends before position i
RECURSIVE WsStart(_, _)
WsStart(code, i) == IF At(code, i - 1) \in WhiteSpace THEN WsStart(code, i - 1) ELSE i

\* (export default|module.exports) stands at i: 'module', any character
\* but a line break, 'exports'
JSONScriptWord(code, i) ==
    \/ Match(code, i, W_exportSpaceDefault)
    \/ /\ Match(code, i, W_module)
       /\ At(code, i + Len(W_module)) \notin {"", "\n"}
       /\ Match(code, i + Len(W_module) + 1, W_exports)

\* the first position at or after i where the pattern's word stands,
\* followed by white space; 0 when there is none
RECURSIVE JSONScriptFind(_, _)
JSONScriptFind(code, i) ==
    IF i > Len(code) THEN 0
    ELSE IF JSONScriptWord(code, i)
            /\ At(code, i + Len(W_exportSpaceDefault)) \in WhiteSpace
    THEN i
    ELSE JSONScriptFind(code, i + 1)

\* JSONScript.parse(code): the first match of
\* /(\s)*(export default|module.exports)[\s]+/ anywhere in the code is
\* removed and the rest executed as `return (...)`
JSONScript_parse(code) ==
    LET w == JSONScriptFind(code, 1)
        cleaned == IF w = 0 THEN code
                   ELSE SubSeq(code, 1, WsStart(code, w) - 1)
                            \o SubSeq(code, SkipWs(code, w + Len(W_exportSpaceDefault)),
                                      Len(code))
    IN  Eval(cleaned)

\* the first position at or after i where 'export default' stands between
\* white space; 0 when there is none
RECURSIVE JsonScriptFind(_, _)
JsonScriptFind(code, i) ==
    IF i > Len(code) THEN 0
    ELSE IF /\ Match(code, i, W_exportSpaceDefault)
            /\ At(code, i - 1) \in WhiteSpace
            /\ At(code, i + Len(W_exportSpaceDefault)) \in WhiteSpace
    THEN i
    ELSE JsonScriptFind(code, i + 1)

\* Function('"use strict"; ' + body)(): a return statement yields its
\* expression's value, an expression statement yields undefined
EvalBody(body) ==
    LET b == SkipWs(body, 1)
        e == b + Len(W_return)
        returns == Match(body, b, W_return) /\ At(body, e) \notin IdPart
    IN  IF b > Len(body) \/ (returns /\ SkipWs(body, e) > Len(body))
        THEN [threw |-> FALSE, err |-> "", val |-> Undefined]
        ELSE IF ~returns /\ At(body, b) = "{"
        THEN [threw |-> TRUE, err |-> T_Unsupported, val |-> NoValue]
        ELSE The({ IF returns \/ r.threw THEN r
                   ELSE [threw |-> FALSE, err |-> "", val |-> Undefined] :
                   r \in {Eval(IF returns THEN SubSeq(body, e, Len(body)) ELSE body)} })

\* JsonScript.parse(code): the first match of
\* /[\s]+export default[\s]+/ anywhere in the code becomes 'return ' and
\* the code is executed as a function body
JsonScript_parse(code) ==
    LET w == JsonScriptFind(code, 1)
        body == IF w = 0 THEN code
                ELSE SubSeq(code, 1, WsStart(code, w) - 1)
                         \o W_return \o <<" ">>
                         \o SubSeq(code, SkipWs(code, w + Len(W_exportSpaceDefault)),
                                   Len(code))
    IN  EvalBody(body)

Classes == {"PseudoJSON", "JSONScript", "JsonScript"}

T_MidLineExport == <<"a", " ">> \o W_exportSpaceDefault \o <<" ", "b">>
T_MidLineModule == <<"a", " ">> \o W_module \o <<".">> \o W_exports \o <<" ", "b">>

JsLeaves ==
    { Null, Str(T_MidLineExport), Str(T_MidLineModule),
      Sym(FALSE, FALSE, <<>>, 1), Sym(FALSE, TRUE, <<"k">>, 3),
      Sym(TRUE, TRUE, <<"k">>, 0), Sym(TRUE, TRUE, <<>>, 0) }

JsKeys == { KeyA, Sym(FALSE, TRUE, <<"k">>, 5), Sym(TRUE, TRUE, <<"k">>, 0) }

\* the wrapper the program writes before the rendered text
JsWrapperForms == { <<>>, W_exportDefault, <<"\n">> \o W_exportDefault }

InitJS ==
    /\ heap = <<>>
    /\ indent \in IndentOptions
    /\ _indent = constructor(indent)
    /\ _exists = {}
    /\ ops = 0
    /\ arg = NoValue
    /\ ret = NoCall
    /\ repeat = FALSE
    /\ root \in JsLeaves
    /\ moduleCall = NoModule
    /\ parseArg = NoCode
    /\ parsed = NoParse
    /\ class \in Classes
    /\ frames = <<>>
    /\ entered = 0
    /\ reentry = NoInner

\* o.push(o) / o.b = o / o.set("b", o) / o.add(o)
Tie(o) ==
    \/ Push(o, Ref(o))
    \/ SetProperty(o, KeyB, Ref(o))
    \/ MapSet(o, KeyB, Ref(o))
    \/ SetAdd(o, Ref(o))

\* try { text = js.stringify(v) } catch (e) {}, js being of the class
Render ==
    /\ ~Called
    /\ IF class = "JsonScript"
       THEN LET r == JsonScript_stringify(root, <<>>, 0) IN
            /\ arg' = root
            /\ repeat' = FALSE
            /\ ret' = [threw |-> r.err # "", err |-> r.err, text |-> r.text]
            /\ UNCHANGED <<heap, indent, _indent, _exists, ops, root, moduleCall,
                           parseArg, parsed, progress>>
       ELSE CallStringify(root)

\* js.parse(code), js being of class c
parseOf(c, code) ==
    CASE c = "JsonScript" -> JsonScript_parse(code)
      [] c = "JSONScript" -> JSONScript_parse(code)
      [] OTHER -> parse(code)

\* js.parse(wrapper + text), js being of the class
ParseBy(wrapper) ==
    /\ Called /\ ~ret.threw
    /\ parsed = NoParse
    /\ parseArg' = wrapper \o ret.text
    /\ parsed' = parseOf(class, wrapper \o ret.text)
    /\ UNCHANGED <<heap, indent, _indent, _exists, ops, arg, ret, repeat, root,
                   moduleCall, progress>>

NextJS ==
    \/ \E key \in JsKeys, n \in 0..MaxSiblings : heap = <<>> /\ Wrap("record", key, n)
    \/ \E wrapper \in Wrappers \ {"record"} : heap = <<>> /\ Wrap(wrapper, KeyA, 0)
    \/ \E o \in ObjIds : ~Called /\ ~HasCycle(root) /\ Tie(o)
    \/ Render
    \/ \E wrapper \in JsWrapperForms : ParseBy(wrapper)

SpecJS == InitJS /\ [][NextJS]_vars

----------------------------------------------------------------------------
(* Claims C22, C23, C30: JsonScript and JSONScript *)

\* the form a symbol must take: Symbol.for(key) for a registered one,
\* Symbol() or Symbol(description) for an unregistered one
SymbolForm(v) ==
    IF v.reg THEN T_SymbolFor(v.desc)
    ELSE IF v.hasDesc
    THEN <<"S", "y", "m", "b", "o", "l", "(">> \o jsonStrfy(v.desc) \o <<")">>
    ELSE <<"S", "y", "m", "b", "o", "l", "(", ")">>

\* C22: JsonScript.stringify renders a registered symbol as
\* Symbol.for(...) and an unregistered one as Symbol() or
\* Symbol(description), as a value and as a record key.
C22_SymbolFormsNotSwapped ==
    (Called /\ class = "JsonScript" /\ ~ret.threw) =>
        /\ arg.t = "symbol" => ret.text = SymbolForm(arg)
        /\ \A o \in Reach(arg) : \A j \in DOMAIN heap[o].keys :
               (heap[o].kind = "record" /\ heap[o].keys[j].t = "symbol")
                   => Occurs(ret.text, <<"[">> \o SymbolForm(heap[o].keys[j])
                                          \o <<"]", ":", " ">>)

\* the containers JsonScript.stringify descends into from container o: the
\* elements of an array and the own properties of a record
JsChildren(o) ==
    IF heap[o].kind \in {"array", "record"}
    THEN {x.id : x \in {y \in Range(heap[o].items) : IsRef(y)}}
    ELSE {}

RECURSIVE JsClosure(_)
JsClosure(S) ==
    LET S2 == S \cup UNION {JsChildren(o) : o \in S} IN
    IF S2 = S THEN S ELSE JsClosure(S2)

\* a cycle through array elements and own properties is reachable from v
JsHasCycle(v) ==
    IsRef(v) /\ \E o \in JsClosure({v.id}) : o \in JsClosure(JsChildren(o))

C30_MidLineWrapperKept ==
    (Parsed /\ Called /\ arg.t = "string" /\ parseArg = ret.text)
        => (~parsed.threw /\ parsed.val = arg)

====
